---- MODULE Spec2Model ----
(***************************************************************************)
(* A model of the MCP Hub worker: the rate limiter (auth.ts), the cache    *)
(* layer (cache.ts), the registry store (registry.ts), the proxy gateway   *)
(* (proxy.ts), the router (router.ts) and the worker entry point           *)
(* (index.ts), over one key-value store (env.MCP_CACHE).                   *)
(*                                                                         *)
(* Time is counted in ticks of 30 seconds: Date.now() is `now`, a duration *)
(* of 60 000 ms or of 60 s is 2 ticks.  A handler runs within one tick.    *)
(***************************************************************************)
EXTENDS Integers, Sequences, FiniteSets, TLC

VARIABLES
    now,    \* the clock, Date.now(), in ticks
    kv,     \* env.MCP_CACHE: key -> entry (value and the store's own expiry)
    last,   \* the last operation: its inputs, what it returned, what it did
    hist    \* history of the limiter's decisions (not program state)

vars == <<now, kv, last, hist>>

----------------------------------------------------------------------------
(* Bounds of the model.                                                    *)

\* The clock of SpecRL stops at MaxTime: two windows and more.
MaxTime == 4

\* The clock of SpecRegistry stops at MaxRegistryTime: past the expiry of a
\* snapshot cached in the first ticks.
MaxRegistryTime == 12

\* SpecProxy makes at most MaxProxyCalls calls of proxyRequest; its clock and
\* that of Spec stop at MaxGatewayTime.
MaxProxyCalls == 1
MaxGatewayTime == 1

\* The cap of 100 requests per window (auth.ts, RATE_LIMIT_MAX_REQUESTS),
\* scaled down so that a window fills within a few requests.
RATE_LIMIT_MAX_REQUESTS == 3

----------------------------------------------------------------------------
(* Program constants, durations in ticks of 30 s.                          *)

RATE_LIMIT_WINDOW == 2      \* 60 * 1000 ms
RateLimitTtlBuffer == 2     \* expirationTtl: ceil(window / 1000) + 60 s
REGISTRY_CACHE_TTL == 10    \* 300 s
CacheTtlBuffer == 2         \* expirationTtl: ttl + 60 s
MAX_BODY_SIZE == 10         \* 10 * 1024 * 1024 characters, counted in MiB

Time == 0..MaxTime

Clients == {"10.0.0.1"}

----------------------------------------------------------------------------
(* The key-value store.  A key is a pair <<namespace, name>>; an entry     *)
(* holds the value put and the time at which the store itself drops it     *)
(* (put's expirationTtl).                                                  *)

ServerIds == {"A", "B", "C", "example-mcp"}

Keys ==
    {<<"rate_limit", c>> : c \in Clients}
    \cup {<<"registry", "">>}
    \cup {<<"proxy_stats", id>> : id \in ServerIds}
    \cup {<<"proxy_log", id>> : id \in ServerIds}
    \cup {<<"health", id>> : id \in ServerIds \cup {"summary"}}
    \cup {<<"schema", id>> : id \in ServerIds}
    \cup {<<"federated_schema", "">>}

NoEntry == [present |-> FALSE]

Entry(v, exp) == [present |-> TRUE, v |-> v, exp |-> exp]

EmptyStore == [k \in Keys |-> NoEntry]

\* KV put(key, value, {expirationTtl}).
KvPut(store, key, v, ttl, t) == [store EXCEPT ![key] = Entry(v, t + ttl)]

\* KV delete(key).
KvDelete(store, key) == [store EXCEPT ![key] = NoEntry]

\* The store's own expiry: an entry is gone once its expiration time is reached.
KvExpire(store, t) ==
    [k \in Keys |->
        IF store[k].present /\ store[k].exp <= t THEN NoEntry ELSE store[k]]

\* What one handler did besides answering: store keys written or deleted,
\* store keys read, outbound calls issued (in order).
NoEffects == [writes |-> {}, reads |-> {}, calls |-> <<>>]

\* const x = await v; f(x): what f makes of the value of v.
Await(v, f(_)) == CHOOSE y \in {f(x) : x \in {v}} : TRUE

\* The faults of the environment during one handler: whether the store's
\* reads and writes succeed.
StoreEnvs == [getOk : BOOLEAN, putOk : BOOLEAN]
WorkingStore == [getOk |-> TRUE, putOk |-> TRUE]

----------------------------------------------------------------------------
(* Rate limiter (auth.ts).                                                 *)

\* A limiter that would retain a timestamp for the whole of the window's
\* last instant.
InWindowInclusive(timestamp, windowStart) == timestamp >= windowStart

\* req.timestamp > windowStart
InWindow(timestamp, windowStart) == timestamp > windowStart

\* A limiter that would admit one request more: requests.length > cap.
LimitExceededStrict(n) == n > RATE_LIMIT_MAX_REQUESTS

\* requests.length >= RATE_LIMIT_MAX_REQUESTS
LimitExceeded(n) == n >= RATE_LIMIT_MAX_REQUESTS

\* A limiter that would add its timestamp to the window the store holds at
\* the time of the write.
WindowMerged(requests, held, windowStart, timestamp) ==
    Append(SelectSeq(held, LAMBDA ts : InWindow(ts, windowStart)), timestamp)

\* requests.push({ timestamp: now }): the window an invocation writes is the
\* one it read with its own timestamp, whatever the store holds by then.
WindowWritten(requests, held, windowStart, timestamp) == Append(requests, timestamp)

\* A limiter that would report what remained before the request it admits.
RemainingBeforePush(n) == RATE_LIMIT_MAX_REQUESTS - n + 1

\* remaining: RATE_LIMIT_MAX_REQUESTS - requests.length, after the push
Remaining(n) == RATE_LIMIT_MAX_REQUESTS - n

\* expirationTtl: Math.ceil(RATE_LIMIT_WINDOW / 1000) + 60
RateLimitTtl == RATE_LIMIT_WINDOW + RateLimitTtlBuffer

\* A limiter that would reject from its catch block.
RateLimitFailClosed(t) ==
    [allowed |-> FALSE, limit |-> RATE_LIMIT_MAX_REQUESTS,
     remaining |-> 0, reset |-> t + RATE_LIMIT_WINDOW]

\* The result returned from the catch block: the limiter fails open.
RateLimitFailOpen(t) ==
    [allowed |-> TRUE, limit |-> RATE_LIMIT_MAX_REQUESTS,
     remaining |-> RATE_LIMIT_MAX_REQUESTS - 1, reset |-> t + RATE_LIMIT_WINDOW]

\* checkRateLimit(ctx): s is the store and the effects so far; the result is
\* [res |-> RateLimitResult, s |-> the store and the effects afterwards].
CheckRateLimit(s, ip, t, env) ==
    LET key == <<"rate_limit", ip>>
        windowStart == t - RATE_LIMIT_WINDOW
        read == [s EXCEPT !.fx.reads = @ \cup {key}]
    IN  IF ~env.getOk
        THEN [res |-> RateLimitFailOpen(t), s |-> read]
        ELSE
        LET data == s.kv[key]
            requests ==
                IF data.present
                THEN SelectSeq(data.v.requests, LAMBDA ts : InWindow(ts, windowStart))
                ELSE <<>>
        IN  IF LimitExceeded(Len(requests))
            THEN [res |-> [allowed |-> FALSE, limit |-> RATE_LIMIT_MAX_REQUESTS,
                           remaining |-> 0,
                           reset |-> requests[1] + RATE_LIMIT_WINDOW],
                  s |-> read]
            ELSE
            LET pushed == Append(requests, t)
            IN  IF ~env.putOk
                THEN [res |-> RateLimitFailOpen(t), s |-> read]
                ELSE [res |-> [allowed |-> TRUE, limit |-> RATE_LIMIT_MAX_REQUESTS,
                               remaining |-> Remaining(Len(pushed)),
                               reset |-> t + RATE_LIMIT_WINDOW],
                      s |-> [kv |-> KvPut(s.kv, key,
                                          [requests |-> pushed, windowStart |-> t],
                                          RateLimitTtl, t),
                             fx |-> [read.fx EXCEPT !.writes = @ \cup {key}]]]

----------------------------------------------------------------------------
(* Cache layer (cache.ts).  A cached value is wrapped as a CacheEntry      *)
(* {data, timestamp, ttl}; the store keeps it ttl + 60 s.                  *)

\* The value of a property an object does not have.
Undefined == [undefined |-> TRUE]

\* An expiry test that would already miss at the deadline itself.
CacheExpiredAtDeadline(t, cached) == t >= cached.timestamp + cached.ttl

\* now > cached.timestamp + (cached.ttl * 1000).  The stored object is read
\* as a CacheEntry whatever was put: without a ttl the sum is NaN and the
\* comparison false.
CacheExpired(t, cached) ==
    /\ "ttl" \in DOMAIN cached
    /\ "timestamp" \in DOMAIN cached
    /\ t > cached.timestamp + cached.ttl

\* getCachedData(ctx, key): [hit, data, s]; hit tells whether the value
\* returned is an object (neither null nor undefined).  A store error is caught
\* and answered as a miss; an entry past its logical expiry is deleted; of an
\* object stored without a data property, cached.data is undefined.
GetCachedData(s, key, t, env) ==
    LET read == [s EXCEPT !.fx.reads = @ \cup {key}]
        miss == [hit |-> FALSE, data |-> NoEntry, s |-> read]
    IN  IF ~env.getOk THEN miss
        ELSE IF ~s.kv[key].present THEN miss
        ELSE LET cached == s.kv[key].v
             IN  IF CacheExpired(t, cached)
                 THEN IF ~env.putOk THEN miss
                      ELSE [miss EXCEPT !.s.kv = KvDelete(s.kv, key),
                                        !.s.fx.writes = @ \cup {key}]
                 ELSE IF "data" \in DOMAIN cached
                 THEN [hit |-> TRUE, data |-> cached.data, s |-> read]
                 ELSE [hit |-> FALSE, data |-> Undefined, s |-> read]

\* setCachedData(ctx, key, data, ttl): the store and effects afterwards.  A
\* store error is caught (the function then returns false).
SetCachedData(s, key, data, ttl, t, env) ==
    IF ~env.putOk THEN s
    ELSE [kv |-> KvPut(s.kv, key, [data |-> data, timestamp |-> t, ttl |-> ttl],
                       ttl + CacheTtlBuffer, t),
          fx |-> [s.fx EXCEPT !.writes = @ \cup {key}]]

\* deleteCachedData(ctx, key): the store and effects afterwards.  A store
\* error is caught (the function then returns false).
DeleteCachedData(s, key, env) ==
    IF ~env.putOk THEN s
    ELSE [kv |-> KvDelete(s.kv, key), fx |-> [s.fx EXCEPT !.writes = @ \cup {key}]]

----------------------------------------------------------------------------
(* Registry store (registry.ts).                                           *)

\* A URL as the URL parser holds it; port 0 stands for "no port written".
Url(scheme, host, port, path) ==
    [scheme |-> scheme, host |-> host, port |-> port, path |-> path]

NoAuth == [type |-> "none", required |-> FALSE]

Server(id, url, health, auth, verified) ==
    [id |-> id, url |-> url, healthStatus |-> health, authentication |-> auth,
     verified |-> verified]

ServerA == Server("A", Url("https", "a.example", 0, <<"mcp">>), "online", NoAuth, TRUE)
ServerB == Server("B", Url("https", "b.example", 0, <<>>), "offline", NoAuth, FALSE)
ServerC ==
    Server("C", Url("https", "c.example", 8443, <<"api", "v1">>), "degraded",
           [type |-> "api-key", required |-> TRUE], TRUE)

\* createFallbackRegistry()
FallbackRegistry ==
    [version |-> "1.0.0",
     serversKind |-> "list",
     servers |-> <<Server("example-mcp", Url("https", "example.com", 0, <<"mcp">>),
                          "unknown", NoAuth, TRUE)>>,
     stats |-> [totalServers |-> 1, onlineServers |-> 0, totalRequests |-> 0]]

\* Documents the external source can serve (dashboard/public/servers.json).
SourceRegistry ==
    [version |-> "1.0.0",
     serversKind |-> "list",
     servers |-> <<ServerA, ServerB, ServerC>>,
     stats |-> [totalServers |-> 3, onlineServers |-> 1, totalRequests |-> 0]]

SourceRegistryNext ==
    [version |-> "1.1.0",
     serversKind |-> "list",
     servers |-> <<ServerA, ServerC>>,
     stats |-> [totalServers |-> 2, onlineServers |-> 1, totalRequests |-> 0]]

\* Documents that fail the shape check: no version; servers not an array.
NoVersionDoc == [SourceRegistry EXCEPT !.version = ""]
ServersNotListDoc == [SourceRegistry EXCEPT !.serversKind = "object", !.servers = <<>>]

\* What the fetch of the source ends in.
SourceOutcome(kind, doc) == [kind |-> kind, doc |-> doc]

SourceOutcomes ==
    {SourceOutcome("ok", SourceRegistry), SourceOutcome("ok", SourceRegistryNext),
     SourceOutcome("ok", NoVersionDoc), SourceOutcome("ok", ServersNotListDoc),
     SourceOutcome("http-error", FallbackRegistry),
     SourceOutcome("network-error", FallbackRegistry),
     SourceOutcome("unparsable", FallbackRegistry)}

\* A shape check that would not look at servers.
ShapeCheckVersionOnly(registry) == registry.version # ""

\* !(!registry.version || !registry.servers || !Array.isArray(registry.servers))
ValidRegistryShape(registry) ==
    registry.version # "" /\ registry.serversKind = "list"

RegistrySourceCall == [kind |-> "registry-source"]

\* fetchRegistryFromGitHub(): [ok, registry]; ok = FALSE when it throws.
FetchRegistryFromGitHub(src) ==
    IF src.kind # "ok" THEN [ok |-> FALSE, registry |-> FallbackRegistry]
    ELSE IF ~ValidRegistryShape(src.doc) THEN [ok |-> FALSE, registry |-> FallbackRegistry]
    ELSE [ok |-> TRUE, registry |-> src.doc]

RegistryKey == <<"registry", "">>

\* getRegistry(ctx): [registry, from, s]; from tells which return was taken.
GetRegistry(s, t, env, src) ==
    Await(GetCachedData(s, RegistryKey, t, env), LAMBDA cached :
        IF cached.hit
        THEN [registry |-> cached.data, from |-> "cache", s |-> cached.s]
        ELSE
        LET called == [cached.s EXCEPT !.fx.calls = Append(@, RegistrySourceCall)]
            fetched == FetchRegistryFromGitHub(src)
        IN  IF ~fetched.ok
            THEN [registry |-> FallbackRegistry, from |-> "fallback", s |-> called]
            ELSE [registry |-> fetched.registry, from |-> "source",
                  s |-> SetCachedData(called, RegistryKey, fetched.registry,
                                      REGISTRY_CACHE_TTL, t, env)])

\* registry.servers.find(server => server.id === id) || null
FindServer(registry, id) ==
    LET found == SelectSeq(registry.servers, LAMBDA srv : srv.id = id)
    IN  IF found = <<>> THEN [found |-> FALSE, server |-> ServerA]
        ELSE [found |-> TRUE, server |-> found[1]]

\* getServer(ctx, id): [found, server, s].
GetServer(s, id, t, env, src) ==
    Await(GetRegistry(s, t, env, src), LAMBDA r :
        LET f == FindServer(r.registry, id)
        IN  [found |-> f.found, server |-> f.server, s |-> r.s])

\* A text is the sequence of its characters.  toLowerCase() of a character.
LowerChar(c) ==
    CASE c = "A" -> "a"
      [] c = "B" -> "b"
      [] c = "D" -> "d"
      [] c = "E" -> "e"
      [] c = "I" -> "i"
      [] c = "W" -> "w"
      [] OTHER -> c

\* text.toLowerCase()
LowerText(text) == [i \in 1..Len(text) |-> LowerChar(text[i])]

\* text.includes(term)
IncludesText(text, term) ==
    \E i \in 1..(Len(text) - Len(term) + 1) : SubSeq(text, i, i + Len(term) - 1) = term

\* A server record with the fields the search reads: name, description and
\* the list of its tags.
Described(server, name, description, tags) ==
    [id |-> server.id, url |-> server.url, healthStatus |-> server.healthStatus,
     authentication |-> server.authentication, verified |-> server.verified,
     name |-> name, description |-> description, tags |-> tags]

\* The filter on the search term (query is not empty).
QueryMatches(server, query) ==
    LET searchTerm == LowerText(query)
    IN  \/ IncludesText(LowerText(server.name), searchTerm)
        \/ IncludesText(LowerText(server.description), searchTerm)
        \/ \E j \in 1..Len(server.tags) :
                IncludesText(LowerText(server.tags[j]), searchTerm)

\* tags.some(tag => server.tags.includes(tag))
TagsMatch(server, tags) ==
    \E i \in 1..Len(tags) : \E j \in 1..Len(server.tags) : server.tags[j] = tags[i]

\* searchServers(ctx, query, tags, verified): [servers, s].  An absent query
\* is <<>>, absent tags are <<>>, verified is "undefined", "true" or "false".
SearchServers(s, query, tags, verified, t, env, src) ==
    Await(GetRegistry(s, t, env, src), LAMBDA r :
        LET queried == IF query # <<>>
                       THEN SelectSeq(r.registry.servers,
                                      LAMBDA srv : QueryMatches(srv, query))
                       ELSE r.registry.servers
            tagged == IF Len(tags) > 0
                      THEN SelectSeq(queried, LAMBDA srv : TagsMatch(srv, tags))
                      ELSE queried
            checked == IF verified # "undefined"
                       THEN SelectSeq(tagged,
                                      LAMBDA srv : srv.verified = (verified = "true"))
                       ELSE tagged
        IN  [servers |-> checked, s |-> r.s])

\* A candidate record, by what validateServer tells apart in each field:
\* id, name: "ok", "missing" or "number"; description: its length (0 when
\* missing); url: "https", "http", "invalid" or "missing"; version: "semver",
\* "other" or "missing"; tags: "some", "empty" or "none"; author: "named",
\* "unnamed" or "missing".
Candidate(id, name, description, url, version, tags, author) ==
    [id |-> id, name |-> name, description |-> description, url |-> url,
     version |-> version, tags |-> tags, author |-> author]

MaxDescription == 200

ValidationError(field, code) == [field |-> field, code |-> code]

\* validateServer(server): the list of errors.
ValidateServer(server) ==
    (IF server.id # "ok" THEN <<ValidationError("id", "REQUIRED_FIELD")>> ELSE <<>>)
    \o (IF server.name # "ok" THEN <<ValidationError("name", "REQUIRED_FIELD")>> ELSE <<>>)
    \o (IF server.description = 0
        THEN <<ValidationError("description", "REQUIRED_FIELD")>>
        ELSE IF server.description > MaxDescription
        THEN <<ValidationError("description", "MAX_LENGTH")>>
        ELSE <<>>)
    \o (IF server.url = "missing" THEN <<ValidationError("url", "REQUIRED_FIELD")>>
        ELSE IF server.url # "https" THEN <<ValidationError("url", "INVALID_URL")>>
        ELSE <<>>)
    \o (IF server.version = "missing"
        THEN <<ValidationError("version", "REQUIRED_FIELD")>>
        ELSE IF server.version # "semver"
        THEN <<ValidationError("version", "INVALID_VERSION")>>
        ELSE <<>>)
    \o (IF server.tags = "none" THEN <<ValidationError("tags", "INVALID_TYPE")>>
        ELSE IF server.tags = "empty" THEN <<ValidationError("tags", "REQUIRED_FIELD")>>
        ELSE <<>>)
    \o (IF server.author = "missing"
        THEN <<ValidationError("author", "REQUIRED_FIELD")>>
        ELSE IF server.author = "unnamed"
        THEN <<ValidationError("author.name", "REQUIRED_FIELD")>>
        ELSE <<>>)

----------------------------------------------------------------------------
(* Health monitor (health.ts).  Durations of a probe are in milliseconds.  *)

HEALTH_CHECK_TIMEOUT == 30000       \* ms
HEALTH_CHECK_CACHE_TTL == 10        \* 300 s, in ticks
SlowResponseTime == 10000           \* ms: responseTime > 10000 is degraded

\* A thrown value: an Error with a name and a message, or something else.
Thrown(isError, name, message) == [isError |-> isError, name |-> name, message |-> message]

NothingThrown == Thrown(FALSE, "", "")

\* What the fetch of a probe ends in: a response of some status after elapsed
\* ms, or a thrown value.  The kind "rejected" stands for the promise of
\* checkServerHealth itself rejecting with the thrown value.
Probe(kind, status, elapsed, thrown) ==
    [kind |-> kind, status |-> status, elapsed |-> elapsed, thrown |-> thrown]

\* The values a fetch throws: the abort by the timer, and transport failures
\* as different stacks word them.
AbortError == Thrown(TRUE, "AbortError", "The operation was aborted")
FetchFailed == Thrown(TRUE, "TypeError", "fetch failed")
NetworkDown == Thrown(TRUE, "Error", "network unreachable")
ConnectionRefused == Thrown(TRUE, "Error", "connect ECONNREFUSED")
ConnectionTimeout == Thrown(TRUE, "Error", "connection timeout")
NotAnError == Thrown(FALSE, "", "a thrown string")

\* String.prototype.includes on the messages above.
Includes(message, word) ==
    CASE word = "timeout" -> message = "connection timeout"
      [] word = "fetch" -> message = "fetch failed"
      [] word = "network" -> message = "network unreachable"
      [] OTHER -> FALSE

\* response.ok
ResponseOk(status) == status >= 200 /\ status <= 299

\* A classification that would call every response of status 400 and above
\* degraded.
StatusOfResponseLenient(status, responseTime) ==
    IF ResponseOk(status)
    THEN IF responseTime > SlowResponseTime THEN "degraded" ELSE "online"
    ELSE "degraded"

\* The status checkServerHealth gives a response.
StatusOfResponse(status, responseTime) ==
    IF ResponseOk(status)
    THEN IF responseTime > SlowResponseTime THEN "degraded" ELSE "online"
    ELSE IF status >= 500 THEN "degraded"
    ELSE "offline"

\* A HealthCheckResult; an absent error is "", an absent responseTime is -1.
HealthCheckResult(serverId, status, responseTime, error, t) ==
    [serverId |-> serverId, status |-> status, responseTime |-> responseTime,
     error |-> error, timestamp |-> <<"iso", t>>]

\* checkServerHealth(server): the HealthCheckResult; probe is what the fetch
\* of server.url ends in.
CheckServerHealth(server, probe, t) ==
    IF probe.kind = "response"
    THEN HealthCheckResult(server.id, StatusOfResponse(probe.status, probe.elapsed),
                           probe.elapsed, "", t)
    ELSE
    LET error == probe.thrown
    IN  IF ~error.isError
        THEN HealthCheckResult(server.id, "offline", probe.elapsed, "Unknown error", t)
        ELSE IF error.name = "AbortError" \/ Includes(error.message, "timeout")
        THEN HealthCheckResult(server.id, "degraded", probe.elapsed, "Request timeout", t)
        ELSE IF Includes(error.message, "fetch") \/ Includes(error.message, "network")
        THEN HealthCheckResult(server.id, "offline", probe.elapsed, "Network error", t)
        ELSE HealthCheckResult(server.id, "offline", probe.elapsed, error.message, t)

\* The number of probes in flight at once (10 in health.ts), scaled down so
\* that a registry of three servers takes two batches.
MAX_CONCURRENT_CHECKS == 2

\* expirationTtl: HEALTH_CHECK_CACHE_TTL * 2
HealthStoreTtl == HEALTH_CHECK_CACHE_TTL * 2

\* The result the sweep records for a probe whose promise rejected.
ProbeRejected(server, thrown, t) ==
    [serverId |-> server.id, status |-> "offline", responseTime |-> -1,
     error |-> IF thrown.isError THEN thrown.message ELSE "Health check failed",
     timestamp |-> <<"iso", t>>]

\* checkServerHealth(server).catch(error => ...)
ProbeOrOffline(server, probe, t) ==
    IF probe.kind = "rejected"
    THEN ProbeRejected(server, probe.thrown, t)
    ELSE CheckServerHealth(server, probe, t)

\* A sweep that would probe only the first server of each batch.
BatchFirstOnly(servers, i) == SubSeq(servers, i + 1, i + 1)

\* servers.slice(i, i + MAX_CONCURRENT_CHECKS)
Batch(servers, i) ==
    SubSeq(servers, i + 1,
           IF i + MAX_CONCURRENT_CHECKS < Len(servers)
           THEN i + MAX_CONCURRENT_CHECKS ELSE Len(servers))

\* A sweep that would go on as soon as one probe of the batch has completed.
AnySettled(batch, flying) ==
    batch = <<>> \/ \E k \in 1..Len(batch) : batch[k].id \notin flying

\* await Promise.all(batchPromises): the sweep goes on when no probe of the
\* batch is in flight any more.
AllSettled(batch, flying) == \A k \in 1..Len(batch) : batch[k].id \notin flying

\* The loop of checkAllServersHealth from index i on: the results of the
\* batches, one after another.  probes gives for each server id what its
\* probe ends in.
RECURSIVE ProbeBatches(_, _, _, _)
ProbeBatches(servers, i, probes, t) ==
    IF i >= Len(servers) THEN <<>>
    ELSE LET batch == Batch(servers, i)
         IN  [k \in 1..Len(batch) |-> ProbeOrOffline(batch[k], probes[batch[k].id], t)]
             \o ProbeBatches(servers, i + MAX_CONCURRENT_CHECKS, probes, t)

\* results.filter(r => r.status === status).length
CountStatus(results, status) == Len(SelectSeq(results, LAMBDA r : r.status = status))

\* The summary of a list of results.
HealthSummary(results, t) ==
    [totalServers |-> Len(results),
     onlineServers |-> CountStatus(results, "online"),
     degradedServers |-> CountStatus(results, "degraded"),
     offlineServers |-> CountStatus(results, "offline"),
     lastUpdated |-> <<"iso", t>>]

HealthSummaryKey == <<"health", "summary">>

\* storeHealthCheckResults(ctx, results): the store and effects afterwards.
\* Each result and the summary are put as they are, not wrapped as a
\* CacheEntry.  A store error is caught.
StoreHealthCheckResults(s, results, t, env) ==
    IF ~env.putOk THEN s
    ELSE
    LET ids == {results[i].serverId : i \in 1..Len(results)}
        resultOf(id) ==
            results[CHOOSE i \in 1..Len(results) :
                        /\ results[i].serverId = id
                        /\ \A j \in 1..Len(results) : results[j].serverId = id => j <= i]
        written == {<<"health", id>> : id \in ids} \cup {HealthSummaryKey}
    IN  [kv |-> [k \in Keys |->
                    IF k = HealthSummaryKey
                    THEN Entry(HealthSummary(results, t), t + HealthStoreTtl)
                    ELSE IF k \in written
                    THEN Entry(resultOf(k[2]), t + HealthStoreTtl)
                    ELSE s.kv[k]],
         fx |-> [s.fx EXCEPT !.writes = @ \cup written]]

\* The outbound call of a probe.
ProbeCall(server) == [kind |-> "probe", url |-> server.url, method |-> "HEAD"]

\* checkAllServersHealth(ctx): [results, servers, s]; servers is the snapshot
\* the sweep ran over.
CheckAllServersHealth(s, t, env, src, probes) ==
    Await(GetRegistry(s, t, env, src), LAMBDA r :
        LET servers == r.registry.servers
            results == ProbeBatches(servers, 0, probes, t)
            called ==
                [r.s EXCEPT !.fx.calls =
                    @ \o [k \in 1..Len(servers) |-> ProbeCall(servers[k])]]
        IN  [results |-> results, servers |-> servers,
             s |-> StoreHealthCheckResults(called, results, t, env)])

\* getServerHealthStatus(ctx, serverId): [hit, data, s]
GetServerHealthStatus(s, serverId, t, env) ==
    GetCachedData(s, <<"health", serverId>>, t, env)

\* getHealthSummary(ctx): [hit, data, s]
GetHealthSummary(s, t, env) == GetCachedData(s, HealthSummaryKey, t, env)

\* What the servers of the registry answer while a handler runs: probes gives
\* for each server id what a health probe ends in, schemas what a fetch of its
\* schema ends in.
Net(probes, schemas) == [probes |-> probes, schemas |-> schemas]

----------------------------------------------------------------------------
(* Proxy gateway (proxy.ts).                                               *)

PROXY_TIMEOUT == 30000      \* ms
ProxyLogTtl == 20160        \* 7 * 24 * 60 * 60 s, in ticks
ProxyStatsTtl == 86400      \* 30 * 24 * 60 * 60 s, in ticks

ALLOWED_METHODS == {"GET", "POST", "PUT", "PATCH", "DELETE", "HEAD", "OPTIONS"}

\* The method strings callers send, and String.prototype.toUpperCase on them.
MethodTokens == {"GET", "get", "POST", "PUT", "DELETE", "HEAD", "TRACE"}

ToUpperCase(m) == IF m = "get" THEN "GET" ELSE m

\* ALLOWED_METHODS.includes(method.toUpperCase())
MethodAllowed(method) == ToUpperCase(method) \in ALLOWED_METHODS

\* A gateway that would not look at the health status.
OfflineNever(server) == FALSE

\* server.healthStatus === 'offline'
ServerOffline(server) == server.healthStatus = "offline"

\* The port a scheme implies; the URL parser drops a port equal to it.
DefaultPort(scheme) == IF scheme = "https" THEN 443 ELSE 80

NormalPort(scheme, port) == IF port = DefaultPort(scheme) THEN 0 ELSE port

\* URL.origin: scheme, host and port.
Origin(u) == <<u.scheme, u.host, NormalPort(u.scheme, u.port)>>

\* A caller-supplied path as the URL parser reads it: an absolute URL, a
\* scheme-relative reference (//host/...), an absolute path (/...), a
\* relative path, or a string that is no URL reference at all.
Ref(kind, scheme, host, port, path) ==
    [kind |-> kind, scheme |-> scheme, host |-> host, port |-> port, path |-> path]

RefPing == Ref("path-absolute", "", "", 0, <<"ping">>)                \* /ping
RefRelative == Ref("path-relative", "", "", 0, <<"tools">>)           \* tools
RefEvil == Ref("absolute", "https", "evil.example", 0, <<"ping">>)    \* https://evil.example/ping
RefEvilSchemeRelative ==
    Ref("scheme-relative", "", "evil.example", 0, <<"ping">>)         \* //evil.example/ping
RefSameOrigin == Ref("absolute", "https", "a.example", 443, <<"other">>)  \* https://a.example:443/other
RefOtherScheme == Ref("absolute", "http", "a.example", 0, <<"ping">>) \* http://a.example/ping
RefOtherPort == Ref("absolute", "https", "a.example", 8443, <<"ping">>)   \* https://a.example:8443/ping
RefInvalid == Ref("invalid", "", "", 0, <<>>)                         \* https://

TargetPaths ==
    {RefPing, RefRelative, RefEvil, RefEvilSchemeRelative, RefSameOrigin,
     RefOtherScheme, RefOtherPort, RefInvalid}

\* All but the last segment of a path.
Front(path) == IF path = <<>> THEN <<>> ELSE SubSeq(path, 1, Len(path) - 1)

\* new URL(targetPath, server.url): [ok, url]; ok = FALSE when it throws.
ResolveUrl(ref, base) ==
    CASE ref.kind = "absolute" ->
            [ok |-> TRUE,
             url |-> Url(ref.scheme, ref.host, NormalPort(ref.scheme, ref.port), ref.path)]
      [] ref.kind = "scheme-relative" ->
            [ok |-> TRUE,
             url |-> Url(base.scheme, ref.host, NormalPort(base.scheme, ref.port), ref.path)]
      [] ref.kind = "path-absolute" ->
            [ok |-> TRUE,
             url |-> Url(base.scheme, base.host, NormalPort(base.scheme, base.port), ref.path)]
      [] ref.kind = "path-relative" ->
            [ok |-> TRUE,
             url |-> Url(base.scheme, base.host, NormalPort(base.scheme, base.port),
                         Front(base.path) \o ref.path)]
      [] OTHER -> [ok |-> FALSE, url |-> base]

\* A comparison of the host names alone, without scheme and port.
SameOriginHostOnly(targetUrl, serverUrl) == targetUrl.host = serverUrl.host

\* !(targetUrl.origin !== new URL(server.url).origin)
SameOrigin(targetUrl, serverUrl) == Origin(targetUrl) = Origin(serverUrl)

\* Header names and String.prototype.toLowerCase on them.
HeaderNames ==
    {"User-Agent", "Accept", "Content-Type", "accept", "Cache-Control", "Connection",
     "connection", "Authorization", "authorization", "X-Custom"}

ToLowerCase(name) ==
    CASE name = "User-Agent" -> "user-agent"
      [] name = "Accept" -> "accept"
      [] name = "Content-Type" -> "content-type"
      [] name = "Cache-Control" -> "cache-control"
      [] name = "Connection" -> "connection"
      [] name = "Authorization" -> "authorization"
      [] name = "X-Custom" -> "x-custom"
      [] name = "If-None-Match" -> "if-none-match"
      [] name = "Keep-Alive" -> "keep-alive"
      [] name = "TE" -> "te"
      [] name = "AUTHORIZATION" -> "authorization"
      [] OTHER -> name

\* An allow-list that would also name a hop-by-hop header.
AllowedHeadersAndConnection ==
    {"accept", "connection", "cache-control", "content-type", "if-none-match", "range"}

AllowedHeaders ==
    {"accept", "accept-encoding", "accept-language", "cache-control", "content-type",
     "if-match", "if-modified-since", "if-none-match", "if-unmodified-since", "range"}

HopByHopHeaders ==
    {"connection", "keep-alive", "proxy-authenticate", "proxy-authorization", "te",
     "trailers", "transfer-encoding", "upgrade"}

FixedHeaders ==
    [n \in {"User-Agent", "Accept", "Content-Type"} |->
        IF n = "User-Agent" THEN "MCP-Hub-Proxy/1.0" ELSE "application/json"]

\* A header map without the names in S.
Without(h, S) == [n \in DOMAIN h \ S |-> h[n]]

\* originalHeaders.authorization || originalHeaders.Authorization ("" if neither)
CallerAuthorization(originalHeaders) ==
    IF "authorization" \in DOMAIN originalHeaders /\ originalHeaders["authorization"] # ""
    THEN originalHeaders["authorization"]
    ELSE IF "Authorization" \in DOMAIN originalHeaders
         THEN originalHeaders["Authorization"]
         ELSE ""

\* prepareProxyHeaders(originalHeaders, server)
PrepareProxyHeaders(originalHeaders, server) ==
    LET copied ==
            [n \in {k \in DOMAIN originalHeaders : ToLowerCase(k) \in AllowedHeaders}
                |-> originalHeaders[n]]
        headers == copied @@ FixedHeaders
        auth == CallerAuthorization(originalHeaders)
        withAuth ==
            IF /\ server.authentication.required
               /\ server.authentication.type \in {"api-key", "oauth"}
               /\ auth # ""
            THEN ("Authorization" :> auth) @@ headers
            ELSE headers
    IN  Without(withAuth, HopByHopHeaders)

\* A request body as the caller gave it: absent, a string of len MiB, or an
\* object whose JSON text has len MiB.
Body(kind, len) == [kind |-> kind, len |-> len]
NoBody == Body("none", 0)

\* JavaScript truthiness of body.
Truthy(body) == body.kind = "object" \/ (body.kind = "string" /\ body.len > 0)

\* ['POST', 'PUT', 'PATCH'].includes(method.toUpperCase())
CarriesBody(method) == ToUpperCase(method) \in {"POST", "PUT", "PATCH"}

\* proxyBody.length > MAX_BODY_SIZE
BodyTooLarge(proxyBody) == proxyBody.len > MAX_BODY_SIZE

\* What the proxied fetch ends in: a response (any status), the abort by the
\* timer, or a transport failure; elapsed is Date.now() - startTime in ms.
Upstream(kind, status, body, elapsed) ==
    [kind |-> kind, status |-> status, body |-> body, elapsed |-> elapsed]

UpstreamOutcomes ==
    {Upstream("response", 200, "pong", 8), Upstream("response", 204, "", 8),
     Upstream("response", 304, "", 8),
     Upstream("response", 404, "no such tool", 8),
     Upstream("response", 503, "unavailable", 8),
     Upstream("timeout", 0, "", PROXY_TIMEOUT),
     Upstream("network-error", 0, "", 8)}

\* A fetch that would also throw on a status of 400 and above.
FetchThrowsOnHttpError(up) == up.kind # "response" \/ up.status >= 400

\* await fetch(...) and await response.text() throw: on the abort and on a
\* transport failure, not on a response of any status.
FetchThrows(up) == up.kind # "response"

\* The result proxyRequest returns from its outer catch.
ProxyFailure(error) ==
    [success |-> FALSE, error |-> error, status |-> 500,
     statusText |-> "Internal Server Error", body |-> "", responseTime |-> 0]

DefaultStats(timestamp) ==
    [totalRequests |-> 0, successfulRequests |-> 0, failedRequests |-> 0,
     averageResponseTime |-> 0, lastRequest |-> timestamp]

\* Statistics that would count only the statuses 200..299 as successful.
CountsAsSuccessBelow300(status) == status >= 200 /\ status < 300

\* logEntry.responseStatus >= 200 && logEntry.responseStatus < 400
CountsAsSuccess(status) == status >= 200 /\ status < 400

\* Statistics that would count the failed requests in the total only.
UpdatedStatsNoFailures(stats, logEntry) ==
    [totalRequests |-> stats.totalRequests + 1,
     successfulRequests |->
        stats.successfulRequests + (IF CountsAsSuccess(logEntry.responseStatus) THEN 1 ELSE 0),
     failedRequests |-> stats.failedRequests,
     averageResponseTime |-> (stats.averageResponseTime + logEntry.responseTime) \div 2,
     lastRequest |-> logEntry.timestamp]

\* The statistics after one more log entry.
UpdatedStats(stats, logEntry) ==
    [totalRequests |-> stats.totalRequests + 1,
     successfulRequests |->
        stats.successfulRequests + (IF CountsAsSuccess(logEntry.responseStatus) THEN 1 ELSE 0),
     failedRequests |->
        stats.failedRequests + (IF CountsAsSuccess(logEntry.responseStatus) THEN 0 ELSE 1),
     averageResponseTime |-> (stats.averageResponseTime + logEntry.responseTime) \div 2,
     lastRequest |-> logEntry.timestamp]

\* A value under a proxy_stats key that JSON.parse rejects.
UnparsableStats == [unparsable |-> TRUE]

\* The try block of logProxyRequest: [threw, s].  The entries of one server,
\* each put under a key of its own, are kept as one sequence under
\* <<"proxy_log", id>>.  A store error ends the block where it happens; stored
\* statistics that do not parse are replaced by the default ones.
LogProxyRequestTry(s, logEntry, t, env) ==
    LET logKey == <<"proxy_log", logEntry.serverId>>
        statsKey == <<"proxy_stats", logEntry.serverId>>
        entries == IF s.kv[logKey].present THEN s.kv[logKey].v ELSE <<>>
    IN  IF ~env.putOk THEN [threw |-> TRUE, s |-> s]
        ELSE
        LET logged ==
                [kv |-> KvPut(s.kv, logKey, Append(entries, logEntry), ProxyLogTtl, t),
                 fx |-> [s.fx EXCEPT !.writes = @ \cup {logKey},
                                     !.reads = @ \cup {statsKey}]]
        IN  IF ~env.getOk THEN [threw |-> TRUE, s |-> logged]
            ELSE
            LET stats ==
                    IF s.kv[statsKey].present /\ s.kv[statsKey].v # UnparsableStats
                    THEN s.kv[statsKey].v
                    ELSE DefaultStats(logEntry.timestamp)
            IN  [threw |-> FALSE,
                 s |-> [kv |-> KvPut(logged.kv, statsKey, UpdatedStats(stats, logEntry),
                                     ProxyStatsTtl, t),
                        fx |-> [logged.fx EXCEPT !.writes = @ \cup {statsKey}]]]

\* A logProxyRequest whose catch block would throw the error again.
LogProxyRequestRethrows(s, logEntry, t, env) == LogProxyRequestTry(s, logEntry, t, env)

\* logProxyRequest(ctx, logEntry): [threw, s], the store and effects
\* afterwards.  The catch block swallows every error of the try block.
LogProxyRequest(s, logEntry, t, env) ==
    [threw |-> FALSE, s |-> LogProxyRequestTry(s, logEntry, t, env).s]

\* The message of an error of the store.
StoreError == "KV operation failed"

LogEntry(serverId, targetUrl, method, status, elapsed, error, t) ==
    [serverId |-> serverId, targetUrl |-> targetUrl, method |-> method,
     responseStatus |-> status, responseTime |-> elapsed, error |-> error,
     timestamp |-> t]

\* The outbound call of the proxy.
ProxyCall(targetUrl, method, headers, body) ==
    [kind |-> "proxy", url |-> targetUrl, method |-> method, headers |-> headers,
     body |-> body]

\* A gateway that would rely on the router's check and make none of its own.
ProxyRateLimitSkipped(s, ip, t, env) == [res |-> RateLimitFailOpen(t), s |-> s]

\* const rateLimitResult = await checkRateLimit(ctx) in proxyRequest: the
\* limiter is called a second time for a request the router already counted.
ProxyRateLimit(s, ip, t, env) == CheckRateLimit(s, ip, t, env)

\* proxyRequest(ctx, serverId, targetPath, method, headers, body):
\* [res |-> ProxyResponse, s |-> the store and the effects afterwards].
\* env: the store's faults; src: what a fetch of the registry source would end
\* in; up: what the proxied fetch would end in.  Error messages are modelled
\* without the id or method they interpolate.
ProxyRequest(s, ip, t, env, src, up, serverId, targetPath, method, headers, body) ==
    IF ~MethodAllowed(method)
    THEN [res |-> ProxyFailure("Method not allowed"), s |-> s]
    ELSE
    Await(GetServer(s, serverId, t, env, src), LAMBDA got :
        IF ~got.found
        THEN [res |-> ProxyFailure("Server not found"), s |-> got.s]
        ELSE IF ServerOffline(got.server)
        THEN [res |-> ProxyFailure("Server is currently offline"), s |-> got.s]
        ELSE
        Await(ProxyRateLimit(got.s, ip, t, env), LAMBDA rl :
            LET server == got.server
                target == ResolveUrl(targetPath, server.url)
                proxyHeaders == PrepareProxyHeaders(headers, server)
                attach == Truthy(body) /\ CarriesBody(method)
                proxyBody == IF attach THEN Body("string", body.len) ELSE NoBody
            IN  IF ~rl.res.allowed
                THEN [res |-> ProxyFailure("Rate limit exceeded"), s |-> rl.s]
                ELSE IF ~target.ok
                THEN [res |-> ProxyFailure("Invalid URL"), s |-> rl.s]
                ELSE IF ~SameOrigin(target.url, server.url)
                THEN [res |-> ProxyFailure("Target URL must be within the server's domain"),
                      s |-> rl.s]
                ELSE IF attach /\ BodyTooLarge(proxyBody)
                THEN [res |-> ProxyFailure("Request body too large"), s |-> rl.s]
                ELSE
                LET called ==
                        [rl.s EXCEPT !.fx.calls =
                            Append(@, ProxyCall(target.url, ToUpperCase(method),
                                                proxyHeaders, proxyBody))]
                    errorMessage ==
                        IF up.kind = "timeout" THEN "Request timeout" ELSE "fetch failed"
                    failed(message) ==
                        LogEntry(serverId, target.url, ToUpperCase(method),
                                 0, up.elapsed, message, t)
                IN  IF ~FetchThrows(up)
                    THEN
                    Await(LogProxyRequest(called,
                                LogEntry(serverId, target.url, ToUpperCase(method),
                                         up.status, up.elapsed, "", t), t, env),
                          LAMBDA logged :
                        IF ~logged.threw
                        THEN [res |-> [success |-> TRUE, error |-> "",
                                       status |-> up.status, statusText |-> "",
                                       body |-> up.body, responseTime |-> up.elapsed],
                              s |-> logged.s]
                        ELSE \* the inner catch logs the failure and throws again
                        [res |-> ProxyFailure(StoreError),
                         s |-> LogProxyRequest(logged.s, failed(StoreError), t, env).s])
                    ELSE
                    Await(LogProxyRequest(called, failed(errorMessage), t, env),
                          LAMBDA logged :
                        [res |-> ProxyFailure(IF logged.threw THEN StoreError
                                              ELSE errorMessage),
                         s |-> logged.s])))

----------------------------------------------------------------------------
(* Schema federation (schema-federation.ts).  A name is the list of its    *)
(* parts between colons: "search" is <<"search">>, "A:search" is           *)
(* <<"A", "search">>.  A tool, resource or prompt is [name, namespace]; an *)
(* absent namespace is "".                                                 *)

SCHEMA_FETCH_TIMEOUT == 15000   \* ms
SCHEMA_CACHE_TTL == 120         \* 3600 s, in ticks
MAX_SCHEMA_SIZE == 1024         \* 1024 * 1024 characters, counted in KiB

Item(name, namespace) == [name |-> name, namespace |-> namespace]

\* `${item.namespace || 'unknown'}:${item.name}`
Qualify(item) ==
    <<IF item.namespace = "" THEN "unknown" ELSE item.namespace>> \o item.name

\* The keys of the Map that groups the items by name, in insertion order: the
\* names in the order of their first occurrence.
GroupKeys(items) ==
    LET firsts ==
            SelectSeq([i \in 1..Len(items) |-> i],
                      LAMBDA i : \A j \in 1..(i - 1) : items[j].name # items[i].name)
    IN  [k \in 1..Len(firsts) |-> items[firsts[k]].name]

\* A merge that would call a name conflicting only from three contributors on.
ConflictingFromThree(list) == Len(list) > 2

\* !(list.length === 1)
Conflicting(list) == Len(list) # 1

\* The second loop of resolveToolConflicts, resolveResourceConflicts and
\* resolvePromptConflicts, from the k-th key on: [items, conflicts].
RECURSIVE ResolveFrom(_, _, _, _)
ResolveFrom(keys, k, items, type) ==
    IF k > Len(keys) THEN [items |-> <<>>, conflicts |-> <<>>]
    ELSE
    LET name == keys[k]
        list == SelectSeq(items, LAMBDA it : it.name = name)
        rest == ResolveFrom(keys, k + 1, items, type)
    IN  IF ~Conflicting(list)
        THEN [items |-> <<list[1]>> \o rest.items, conflicts |-> rest.conflicts]
        ELSE [items |->
                 [i \in 1..Len(list) |-> [list[i] EXCEPT !.name = Qualify(list[i])]]
                 \o rest.items,
              conflicts |->
                 <<[type |-> type, name |-> name,
                    servers |->
                        [i \in 1..Len(list) |->
                            IF list[i].namespace = "" THEN "unknown"
                            ELSE list[i].namespace],
                    resolution |-> "namespace"]>>
                 \o rest.conflicts]

\* resolveToolConflicts(tools)
ResolveToolConflicts(tools) == ResolveFrom(GroupKeys(tools), 1, tools, "tool")

\* resolveResourceConflicts(resources)
ResolveResourceConflicts(resources) ==
    ResolveFrom(GroupKeys(resources), 1, resources, "resource")

\* resolvePromptConflicts(prompts)
ResolvePromptConflicts(prompts) == ResolveFrom(GroupKeys(prompts), 1, prompts, "prompt")

\* The concatenation of a field of the schemas, in their order.
RECURSIVE Collect(_, _, _)
Collect(schemas, i, field) ==
    IF i > Len(schemas) THEN <<>>
    ELSE schemas[i][field] \o Collect(schemas, i + 1, field)

\* mergeSchemas(schemas); capabilities and namespaces are kept as sets.
MergeSchemas(schemas, t) ==
    LET tools == ResolveToolConflicts(Collect(schemas, 1, "tools"))
        resources == ResolveResourceConflicts(Collect(schemas, 1, "resources"))
        prompts == ResolvePromptConflicts(Collect(schemas, 1, "prompts"))
    IN  [version |-> "1.0.0",
         servers |-> [i \in 1..Len(schemas) |-> schemas[i].serverId],
         tools |-> tools.items,
         resources |-> resources.items,
         prompts |-> prompts.items,
         capabilities |-> UNION {schemas[i].capabilities : i \in 1..Len(schemas)},
         namespaces |->
            {schemas[i].namespace : i \in 1..Len(schemas)} \ {""},
         conflicts |-> tools.conflicts \o resources.conflicts \o prompts.conflicts,
         lastUpdated |-> t]

\* The document a server serves at /schema: its namespace ("" when it names
\* none), the names of its tools, resources and prompts, its capabilities and
\* the length of its text in KiB.
SchemaDoc(namespace, tools, resources, prompts, capabilities, size) ==
    [namespace |-> namespace, tools |-> tools, resources |-> resources,
     prompts |-> prompts, capabilities |-> capabilities, size |-> size]

\* normalizeTools, normalizeResources, normalizePrompts: every item gets the
\* server's id as its namespace, and the name 'unnamed' when it has none
\* (<<>>).
Normalize(names, namespace) ==
    [i \in 1..Len(names) |->
        Item(IF names[i] = <<>> THEN <<"unnamed">> ELSE names[i], namespace)]

\* The MCPSchema fetchServerSchema builds from the document of a server.
NormalizeSchema(server, doc, t) ==
    [serverId |-> server.id,
     version |-> "1.0.0",
     namespace |-> IF doc.namespace = "" THEN server.id ELSE doc.namespace,
     tools |-> Normalize(doc.tools, server.id),
     resources |-> Normalize(doc.resources, server.id),
     prompts |-> Normalize(doc.prompts, server.id),
     capabilities |-> doc.capabilities,
     lastFetched |-> t]

\* What the fetch of a schema ends in: "ok" with a document, a response of a
\* non-OK status, the abort by the timer, a transport failure, or a text that
\* does not parse.
SchemaOutcome(kind, doc) == [kind |-> kind, doc |-> doc]

\* isSchemaFresh(schema)
IsSchemaFresh(schema, t) == t - schema.lastFetched < SCHEMA_CACHE_TTL

\* isFederatedSchemaFresh(schema)
IsFederatedSchemaFresh(schema, t) == t - schema.lastUpdated < SCHEMA_CACHE_TTL

\* The outbound call of a schema fetch: GET new URL('/schema', server.url).
SchemaCall(server) ==
    [kind |-> "schema", id |-> server.id,
     url |-> Url(server.url.scheme, server.url.host,
                 NormalPort(server.url.scheme, server.url.port), <<"schema">>),
     method |-> "GET"]

\* A federation that would keep a failed fetch as an empty schema.
FetchFailsNever(outcome) == FALSE

\* The fetch of a schema returns null: the response is not OK, the fetch or
\* JSON.parse throws, or the text is longer than MAX_SCHEMA_SIZE.
FetchFails(outcome) == outcome.kind # "ok" \/ outcome.doc.size > MAX_SCHEMA_SIZE

\* fetchServerSchema(ctx, server): [ok, schema, s]; ok = FALSE when it returns
\* null.  outcome is what the fetch of the server's schema ends in.
FetchServerSchema(s, server, t, env, outcome) ==
    Await(GetCachedData(s, <<"schema", server.id>>, t, env), LAMBDA cached :
        IF cached.hit /\ IsSchemaFresh(cached.data, t)
        THEN [ok |-> TRUE, schema |-> cached.data, s |-> cached.s]
        ELSE
        LET called == [cached.s EXCEPT !.fx.calls = Append(@, SchemaCall(server))]
            schema == NormalizeSchema(server, outcome.doc, t)
        IN  IF FetchFails(outcome)
            THEN [ok |-> FALSE, schema |-> schema, s |-> called]
            ELSE [ok |-> TRUE, schema |-> schema,
                  s |-> SetCachedData(called, <<"schema", server.id>>, schema,
                                      SCHEMA_CACHE_TTL, t, env)])

\* The fetches of createFederatedSchema from the i-th online server on:
\* [schemas, s], schemas being the results that are not null, in order.
RECURSIVE FetchSchemas(_, _, _, _, _, _)
FetchSchemas(s, servers, i, t, env, outcomes) ==
    IF i > Len(servers) THEN [schemas |-> <<>>, s |-> s]
    ELSE
    Await(FetchServerSchema(s, servers[i], t, env, outcomes[servers[i].id]), LAMBDA f :
        Await(FetchSchemas(f.s, servers, i + 1, t, env, outcomes), LAMBDA rest :
            [schemas |-> (IF f.ok THEN <<f.schema>> ELSE <<>>) \o rest.schemas,
             s |-> rest.s]))

FederatedSchemaKey == <<"federated_schema", "">>

\* registry.servers.filter(s => s.healthStatus === 'online')
OnlineServers(registry) == SelectSeq(registry.servers, LAMBDA srv : srv.healthStatus = "online")

\* createFederatedSchema(ctx): [schema, from, s]; from tells whether the cached
\* schema was returned or a new one was merged.
CreateFederatedSchema(s, t, env, src, outcomes) ==
    Await(GetCachedData(s, FederatedSchemaKey, t, env), LAMBDA cached :
        IF cached.hit /\ IsFederatedSchemaFresh(cached.data, t)
        THEN [schema |-> cached.data, from |-> "cache", s |-> cached.s]
        ELSE
        Await(GetRegistry(cached.s, t, env, src), LAMBDA r :
            Await(FetchSchemas(r.s, OnlineServers(r.registry), 1, t, env, outcomes),
                  LAMBDA f :
                LET federatedSchema == MergeSchemas(f.schemas, t)
                IN  [schema |-> federatedSchema, from |-> "merge",
                     s |-> SetCachedData(f.s, FederatedSchemaKey, federatedSchema,
                                         SCHEMA_CACHE_TTL, t, env)])))

----------------------------------------------------------------------------
(* Router (router.ts) and worker entry point (index.ts).                   *)
(*                                                                         *)
(* A request is [method, path, payload, query, candidate]: path is the     *)
(* list of the segments of url.pathname, payload the JSON body of a proxy  *)
(* request, candidate that of a submission and query the search parameters *)
(* the handlers read.  net is what the servers of the registry answer to   *)
(* the probes and schema fetches of a handler.                             *)

Response(status, kind, success, error, data, headers, body) ==
    [status |-> status, kind |-> kind, success |-> success, error |-> error,
     data |-> data, headers |-> headers, body |-> body]

NoData == [none |-> TRUE]

JsonHeaders == [n \in {"Content-Type"} |-> "application/json"]

\* createSuccessResponse(data, additionalHeaders)
CreateSuccessResponse(data, additionalHeaders) ==
    Response(200, "envelope", TRUE, "", data, additionalHeaders @@ JsonHeaders, "")

\* createErrorResponse(error, status, additionalHeaders)
CreateErrorResponse(error, status, additionalHeaders) ==
    Response(status, "envelope", FALSE, error, NoData, additionalHeaders @@ JsonHeaders, "")

\* The X-RateLimit-* headers built from a limiter result.
RateLimitHeaders(limit, remaining, reset) ==
    [n \in {"X-RateLimit-Limit", "X-RateLimit-Remaining", "X-RateLimit-Reset"} |->
        CASE n = "X-RateLimit-Limit" -> limit
          [] n = "X-RateLimit-Remaining" -> remaining
          [] OTHER -> reset]

\* Status codes with which a Response may carry no body.
NullBodyStatus == {101, 204, 205, 304}

\* The runtimes the worker runs on differ in new Response(body, {status}) for
\* a null-body status and an empty string as body: the Fetch standard has the
\* constructor throw for any body that is not null ("strict"); a runtime may
\* instead take the empty string for no body ("lenient").
Runtimes == {"strict", "lenient"}

\* A constructor that would accept any body with any status.
NewResponseNeverThrows(rt, status, body) == FALSE

\* new Response(result.body, {status: result.status, ...}) throws.
NewResponseThrows(rt, status, body) ==
    status \in NullBodyStatus /\ (body # "" \/ rt = "strict")

\* The JSON body of POST /api/proxy: valid tells whether it parses; an absent
\* or empty serverId or method is "", an absent path is a reference of kind
\* "missing".
Payload(valid, serverId, path, method, headers, body) ==
    [valid |-> valid, serverId |-> serverId, path |-> path, method |-> method,
     headers |-> headers, body |-> body]

RefMissing == Ref("missing", "", "", 0, <<>>)

\* The status handleProxyEndpoint gives a failed proxy result: result.status.
ProxyErrorStatus(result) == result.status

\* handleProxyEndpoint(ctx, method, rateLimitHeaders): [resp, s]; rt is the
\* runtime the worker runs on.
HandleProxyEndpoint(s, req, ip, t, env, src, up, rt, rateLimitHeaders) ==
    LET p == req.payload IN
    IF req.method # "POST"
    THEN [resp |-> CreateErrorResponse("Method not allowed", 405, rateLimitHeaders), s |-> s]
    ELSE IF ~p.valid
    THEN [resp |-> CreateErrorResponse("Failed to proxy request", 500, rateLimitHeaders),
          s |-> s]
    ELSE IF p.serverId = "" \/ p.path.kind = "missing" \/ p.method = ""
    THEN [resp |-> CreateErrorResponse("Missing required fields: serverId, path, method",
                                       400, rateLimitHeaders),
          s |-> s]
    ELSE IF ToUpperCase(p.method) \notin ALLOWED_METHODS
    THEN [resp |-> CreateErrorResponse("Method not allowed", 400, rateLimitHeaders),
          s |-> s]
    ELSE
    Await(ProxyRequest(s, ip, t, env, src, up, p.serverId, p.path, p.method,
                       p.headers, p.body),
          LAMBDA r :
        LET result == r.res
        IN  IF result.success
            THEN IF NewResponseThrows(rt, result.status, result.body)
                 THEN [resp |-> CreateErrorResponse("Failed to proxy request", 500,
                                                    rateLimitHeaders),
                       s |-> r.s]
                 ELSE [resp |->
                          Response(result.status, "proxied", TRUE, "", NoData,
                                   [n \in {"Content-Type", "X-Proxy-Response-Time",
                                           "X-Proxy-Server-Id"} |->
                                       CASE n = "Content-Type" -> "application/json"
                                         [] n = "X-Proxy-Response-Time" -> result.responseTime
                                         [] OTHER -> p.serverId]
                                   @@ rateLimitHeaders,
                                   result.body),
                       s |-> r.s]
            ELSE [resp |-> CreateErrorResponse(
                              IF result.error = "" THEN "Proxy request failed"
                              ELSE result.error,
                              ProxyErrorStatus(result), rateLimitHeaders),
                  s |-> r.s])

\* A number: an integer or NaN.
Num(n) == [nan |-> FALSE, n |-> n]
NaN == [nan |-> TRUE, n |-> 0]

\* A search parameter read as a number: absent (or empty), a text of digits
\* with or without a sign, or another text.
NoParam == [kind |-> "absent", n |-> 0]
Digits(n) == [kind |-> "digits", n |-> n]
Letters == [kind |-> "letters", n |-> 0]

DefaultLimit == 20
DefaultOffset == 0

\* parseInt(url.searchParams.get(name) || default)
ParseInt(param, default) ==
    CASE param.kind = "absent" -> Num(default)
      [] param.kind = "digits" -> Num(param.n)
      [] OTHER -> NaN

\* a + b
Plus(a, b) == IF a.nan \/ b.nan THEN NaN ELSE Num(a.n + b.n)

\* a < n
LessThan(a, n) == ~a.nan /\ a.n < n

\* The index array.slice makes of an argument: NaN is 0, a negative number
\* counts from the end.
SliceIndex(a, len) ==
    IF a.nan THEN 0
    ELSE IF a.n < 0 THEN (IF len + a.n < 0 THEN 0 ELSE len + a.n)
    ELSE IF a.n > len THEN len ELSE a.n

\* array.slice(start, end)
Slice(array, start, end) ==
    SubSeq(array, SliceIndex(start, Len(array)) + 1, SliceIndex(end, Len(array)))

\* A listing that would also announce more when the page ends at the last match.
HasMoreInclusive(offset, limit, total) ==
    ~Plus(offset, limit).nan /\ Plus(offset, limit).n <= total

\* offset + limit < total
HasMore(offset, limit, total) == LessThan(Plus(offset, limit), total)

\* url.searchParams.get('verified') === 'true'
VerifiedOnly(req) == req.query.verified = "true"

\* The filters of the listing.  query.tags is the list that
\* url.searchParams.get('tags')?.split(',') || [] makes: <<>> when the
\* parameter is absent, <<<<>>>> when it is empty.
Listed(servers, req) ==
    LET queried == IF req.query.q # <<>>
                   THEN SelectSeq(servers, LAMBDA srv : QueryMatches(srv, req.query.q))
                   ELSE servers
        tagged == IF Len(req.query.tags) > 0
                  THEN SelectSeq(queried, LAMBDA srv : TagsMatch(srv, req.query.tags))
                  ELSE queried
    IN  IF VerifiedOnly(req)
        THEN SelectSeq(tagged, LAMBDA srv : srv.verified)
        ELSE tagged

\* handleServersEndpoint(ctx, pathParts, method, rateLimitHeaders): [resp, s].
\* pathParts is the path without its leading "api".
HandleServersEndpoint(s, pathParts, req, t, env, src, rateLimitHeaders) ==
    IF req.method # "GET"
    THEN [resp |-> CreateErrorResponse("Method not allowed", 405, rateLimitHeaders), s |-> s]
    ELSE IF Len(pathParts) = 1
    THEN Await(GetRegistry(s, t, env, src), LAMBDA r :
         Await(Listed(r.registry.servers, req), LAMBDA servers :
         LET total == Len(servers)
             limit == ParseInt(req.query.limit, DefaultLimit)
             offset == ParseInt(req.query.offset, DefaultOffset)
         IN  [resp |-> CreateSuccessResponse(
                          [servers |-> Slice(servers, offset, Plus(offset, limit)),
                           pagination |-> [total |-> total, limit |-> limit,
                                           offset |-> offset,
                                           hasMore |-> HasMore(offset, limit, total)]],
                          rateLimitHeaders),
              s |-> r.s]))
    ELSE IF Len(pathParts) = 2
    THEN Await(GetServer(s, pathParts[2], t, env, src), LAMBDA g :
             IF ~g.found
             THEN [resp |-> CreateErrorResponse("Server not found", 404, rateLimitHeaders),
                   s |-> g.s]
             ELSE [resp |-> CreateSuccessResponse(g.server, rateLimitHeaders), s |-> g.s])
    ELSE IF Len(pathParts) = 3 /\ pathParts[3] = "schema"
    THEN Await(GetServer(s, pathParts[2], t, env, src), LAMBDA g :
             IF ~g.found
             THEN [resp |-> CreateErrorResponse("Server not found", 404, rateLimitHeaders),
                   s |-> g.s]
             ELSE [resp |-> CreateSuccessResponse([serverId |-> pathParts[2]],
                                                  rateLimitHeaders),
                   s |-> g.s])
    ELSE [resp |-> CreateErrorResponse("Invalid servers endpoint", 400, rateLimitHeaders),
          s |-> s]

\* handleStatsEndpoint(ctx, method, rateLimitHeaders): [resp, s].
HandleStatsEndpoint(s, method, t, env, src, rateLimitHeaders) ==
    IF method # "GET"
    THEN [resp |-> CreateErrorResponse("Method not allowed", 405, rateLimitHeaders), s |-> s]
    ELSE Await(GetRegistry(s, t, env, src), LAMBDA r :
             [resp |-> CreateSuccessResponse(r.registry.stats, rateLimitHeaders), s |-> r.s])

\* url.searchParams.get('force') === 'true'
ForceCheck(req) == req.query.force

\* handleHealthEndpoint(ctx, method, rateLimitHeaders): [resp, s].
HandleHealthEndpoint(s, req, t, env, src, probes, rateLimitHeaders) ==
    IF req.method # "GET"
    THEN [resp |-> CreateErrorResponse("Method not allowed", 405, rateLimitHeaders), s |-> s]
    ELSE IF ForceCheck(req)
    THEN Await(CheckAllServersHealth(s, t, env, src, probes), LAMBDA r :
             [resp |-> CreateSuccessResponse(
                          [results |-> r.results] @@ HealthSummary(r.results, t),
                          rateLimitHeaders),
              s |-> r.s])
    ELSE Await(GetHealthSummary(s, t, env), LAMBDA g :
             IF ~g.hit
             THEN [resp |-> CreateSuccessResponse(
                               [message |->
                                   "No health data available. Run health check first."],
                               rateLimitHeaders),
                   s |-> g.s]
             ELSE [resp |-> CreateSuccessResponse(g.data, rateLimitHeaders), s |-> g.s])

\* url.searchParams.get('refresh') === 'true'
ForceRefresh(req) == req.query.refresh

\* handleFederatedSchemaEndpoint(ctx, method, rateLimitHeaders): [resp, s].
\* The delete of the cached schema is not guarded: a store error ends the
\* handler in its catch block.
HandleFederatedSchemaEndpoint(s, req, t, env, src, outcomes, rateLimitHeaders) ==
    IF req.method # "GET"
    THEN [resp |-> CreateErrorResponse("Method not allowed", 405, rateLimitHeaders), s |-> s]
    ELSE IF ForceRefresh(req) /\ ~env.putOk
    THEN [resp |-> CreateErrorResponse("Failed to get federated schema", 500,
                                       rateLimitHeaders),
          s |-> s]
    ELSE
    LET cleared ==
            IF ForceRefresh(req)
            THEN [kv |-> KvDelete(s.kv, FederatedSchemaKey),
                  fx |-> [s.fx EXCEPT !.writes = @ \cup {FederatedSchemaKey}]]
            ELSE s
    IN  Await(CreateFederatedSchema(cleared, t, env, src, outcomes), LAMBDA r :
            [resp |-> CreateSuccessResponse(r.schema, rateLimitHeaders), s |-> r.s])

\* handleSubmitEndpoint(ctx, method, rateLimitHeaders): [resp, s].
HandleSubmitEndpoint(s, method, rateLimitHeaders) ==
    IF method # "POST"
    THEN [resp |-> CreateErrorResponse("Method not allowed", 405, rateLimitHeaders), s |-> s]
    ELSE [resp |-> CreateSuccessResponse(
                      [message |-> "Submit endpoint - implementation pending"],
                      rateLimitHeaders),
          s |-> s]

\* handleAPIRequest(ctx, path, method, rateLimitHeaders): [resp, s].
HandleAPIRequest(s, req, ip, t, env, src, up, rt, net, rateLimitHeaders) ==
    LET pathParts == Tail(req.path)
        route == IF pathParts = <<>> THEN "" ELSE pathParts[1]
    IN  CASE route = "servers" ->
                HandleServersEndpoint(s, pathParts, req, t, env, src, rateLimitHeaders)
          [] route = "health" ->
                HandleHealthEndpoint(s, req, t, env, src, net.probes, rateLimitHeaders)
          [] route = "stats" ->
                HandleStatsEndpoint(s, req.method, t, env, src, rateLimitHeaders)
          [] route = "proxy" ->
                HandleProxyEndpoint(s, req, ip, t, env, src, up, rt, rateLimitHeaders)
          [] route = "submit" ->
                HandleSubmitEndpoint(s, req.method, rateLimitHeaders)
          [] route = "schema" ->
                HandleFederatedSchemaEndpoint(s, req, t, env, src, net.schemas,
                                              rateLimitHeaders)
          [] OTHER ->
                [resp |-> CreateErrorResponse("API endpoint not found", 404, rateLimitHeaders),
                 s |-> s]

\* A router that would answer for liveness on /health only.
LivenessPathHealthOnly(path) == path = <<"health">>

\* path === '/health' || path === '/'
LivenessPath(path) == path = <<"health">> \/ path = <<>>

\* A router that would route the request whatever the limiter said.
DispatchAnyway(rateLimitResult) == FALSE

\* !rateLimitResult.allowed
Rejected(rateLimitResult) == ~rateLimitResult.allowed

\* path.startsWith('/api/'), for a path without a trailing slash
StartsWithApi(path) == Len(path) >= 2 /\ path[1] = "api"

\* handleRequest(ctx): [resp, rl, s]; rl is the router's own limiter result.
HandleRequest(s, req, ip, t, env, src, up, rt, net) ==
    Await(CheckRateLimit(s, ip, t, env), LAMBDA rl :
        LET rateLimitHeaders ==
                RateLimitHeaders(rl.res.limit, rl.res.remaining, rl.res.reset)
        IN  IF Rejected(rl.res)
            THEN [resp |-> CreateErrorResponse("Rate limit exceeded", 429,
                              RateLimitHeaders(rl.res.limit, 0, rl.res.reset)),
                  rl |-> rl.res, s |-> rl.s]
            ELSE IF StartsWithApi(req.path)
            THEN Await(HandleAPIRequest(rl.s, req, ip, t, env, src, up, rt, net,
                                        rateLimitHeaders),
                       LAMBDA r : [resp |-> r.resp, rl |-> rl.res, s |-> r.s])
            ELSE IF LivenessPath(req.path)
            THEN [resp |-> CreateSuccessResponse([status |-> "healthy"], rateLimitHeaders),
                  rl |-> rl.res, s |-> rl.s]
            ELSE [resp |-> CreateErrorResponse("Not found", 404, rateLimitHeaders),
                  rl |-> rl.res, s |-> rl.s])

CorsHeaders ==
    [n \in {"Access-Control-Allow-Origin", "Access-Control-Allow-Methods",
            "Access-Control-Allow-Headers", "Access-Control-Max-Age"} |->
        CASE n = "Access-Control-Allow-Origin" -> "*"
          [] n = "Access-Control-Allow-Methods" -> "GET, POST, PUT, DELETE, OPTIONS"
          [] n = "Access-Control-Allow-Headers" -> "Content-Type, Authorization, X-API-Key"
          [] OTHER -> "86400"]

SecurityHeaders ==
    [n \in {"X-Content-Type-Options", "X-Frame-Options", "X-XSS-Protection",
            "Referrer-Policy", "Content-Security-Policy"} |->
        CASE n = "X-Content-Type-Options" -> "nosniff"
          [] n = "X-Frame-Options" -> "DENY"
          [] n = "X-XSS-Protection" -> "1; mode=block"
          [] n = "Referrer-Policy" -> "strict-origin-when-cross-origin"
          [] OTHER -> "default-src 'self'"]

\* A worker that would answer no request as a preflight.
PreflightNever(method) == FALSE

\* request.method === 'OPTIONS'
Preflight(method) == method = "OPTIONS"

PreflightStatus == 204

\* The worker's fetch(request, env, ctx): [resp, hr, rl, s]; hr is the response
\* handleRequest returned, resp the one the caller receives.
WorkerFetch(s, req, ip, t, env, src, up, rt, net) ==
    Await(HandleRequest(s, req, ip, t, env, src, up, rt, net), LAMBDA r :
        [resp |-> IF Preflight(req.method)
                  THEN Response(PreflightStatus, "preflight", TRUE, "", NoData,
                                CorsHeaders, "")
                  ELSE [r.resp EXCEPT !.headers = SecurityHeaders @@ CorsHeaders @@ @],
         hr |-> r.resp, rl |-> r.rl, s |-> r.s])

----------------------------------------------------------------------------
(* History of the limiter, kept beside the program: how many requests of   *)
(* each client were admitted at each tick, and whether the store has ever  *)
(* failed during a check.  It is counted from the decisions returned, not  *)
(* from the stored window.  ops counts the handler calls of the            *)
(* specifications that bound their number.  written holds, for each key of *)
(* SpecCache, the last value setCachedData stored under it, until the key  *)
(* is written again or deleteCachedData removes it.  monitor holds, for    *)
(* each server id, the status of the most recent result a sweep of the     *)
(* health monitor produced for it ("none" before the first).               *)

\* The keys SpecCache writes and reads.
CacheKeys == {<<"registry", "">>, <<"federated_schema", "">>}

NoHistory ==
    [admits |-> [c \in Clients |-> [t \in Time |-> 0]],
     rejected |-> [c \in Clients |-> FALSE],
     faulted |-> FALSE,
     ops |-> 0,
     written |-> [k \in CacheKeys |-> NoEntry],
     monitor |-> [id \in ServerIds |-> "none"]]

RECURSIVE SumOver(_, _)
SumOver(f, S) ==
    IF S = {} THEN 0
    ELSE LET x == CHOOSE y \in S : TRUE IN f[x] + SumOver(f, S \ {x})

\* The admissions of client c within the window that trails time t.
AdmittedInWindow(h, c, t) ==
    SumOver(h.admits[c], {u \in Time : u > t - RATE_LIMIT_WINDOW /\ u <= t})

Record(h, c, t, res, env) ==
    IF h.faulted \/ ~env.getOk \/ ~env.putOk
    THEN [h EXCEPT !.faulted = TRUE]
    ELSE IF res.allowed
         THEN [h EXCEPT !.admits[c][t] = @ + 1]
         ELSE [h EXCEPT !.rejected[c] = TRUE]

----------------------------------------------------------------------------
(* The clock and the store's expiry.                                       *)

\* d ticks pass, up to the time limit; the store drops what expired meanwhile.
Advance(d, limit) ==
    /\ now + d <= limit
    /\ now' = now + d
    /\ kv' = KvExpire(kv, now + d)
    /\ UNCHANGED <<last, hist>>

Tick == Advance(1, MaxTime)

Init ==
    /\ now = 0
    /\ kv = EmptyStore
    /\ last = [op |-> "none"]
    /\ hist = NoHistory

----------------------------------------------------------------------------
(* SpecRL: one client after another calls checkRateLimit, each call run to *)
(* completion before the next starts.                                      *)

CallCheckRateLimit(c, env) ==
    \E r \in {CheckRateLimit([kv |-> kv, fx |-> NoEffects], c, now, env)} :
        /\ kv' = r.s.kv
        /\ last' = [op |-> "checkRateLimit", at |-> now, ip |-> c, env |-> env,
                    res |-> r.res, fx |-> r.s.fx,
                    before |-> AdmittedInWindow(hist, c, now),
                    stored |-> kv[<<"rate_limit", c>>],
                    left |-> r.s.kv[<<"rate_limit", c>>],
                    prev |-> IF last.op = "checkRateLimit"
                             THEN [checked |-> TRUE, ip |-> last.ip, at |-> last.at,
                                   res |-> last.res]
                             ELSE [checked |-> FALSE]]
        /\ hist' = Record(hist, c, now, r.res, env)
        /\ UNCHANGED now

NextRL ==
    \/ Tick
    \/ \E c \in Clients, env \in StoreEnvs : CallCheckRateLimit(c, env)

SpecRL == Init /\ [][NextRL]_vars

\* C1: for one client whose checks run one after another on a working store,
\* a check is admitted exactly when fewer than the cap of that client's
\* requests were admitted inside the window trailing it (so no trailing
\* window ever holds more admissions than the cap); the request that finds the
\* window full is rejected with remaining = 0, and an admitted one reports the
\* cap minus the admissions now in the window.
C1_SequentialAdmission ==
    /\ ~hist.faulted =>
            \A c \in Clients, t \in Time :
                AdmittedInWindow(hist, c, t) <= RATE_LIMIT_MAX_REQUESTS
    /\ (last.op = "checkRateLimit" /\ ~hist.faulted) =>
            /\ last.res.allowed <=> last.before < RATE_LIMIT_MAX_REQUESTS
            /\ ~last.res.allowed =>
                    /\ last.res.remaining = 0
                    /\ last.before = RATE_LIMIT_MAX_REQUESTS
            /\ last.res.allowed =>
                    last.res.remaining = RATE_LIMIT_MAX_REQUESTS - (last.before + 1)

\* A client that was rejected with a full window is admitted again later.
C1_Witness ==
    /\ last.op = "checkRateLimit"
    /\ ~hist.faulted
    /\ hist.rejected[last.ip]
    /\ last.res.allowed
    /\ last.before = RATE_LIMIT_MAX_REQUESTS - 1

\* The timestamps the store held for the client of the last check that were
\* inside the window of the check.
StoredInWindow ==
    IF last.stored.present
    THEN Cardinality({i \in 1..Len(last.stored.v.requests) :
                        last.stored.v.requests[i] > last.at - RATE_LIMIT_WINDOW})
    ELSE 0

\* An access to the store failed during the last check: its read, or the
\* write that follows a read of a window that is not full.
StoreFaulted ==
    /\ last.op = "checkRateLimit"
    /\ \/ ~last.env.getOk
       \/ ~last.env.putOk /\ StoredInWindow < RATE_LIMIT_MAX_REQUESTS

\* C24: when the read or the write of the store fails during checkRateLimit
\* the request is admitted, with the result of the catch block and nothing
\* written; a check is rejected only after a read that succeeded and found
\* the window full.
C24_FailOpen ==
    /\ StoreFaulted =>
        /\ last.res.allowed
        /\ last.res.limit = RATE_LIMIT_MAX_REQUESTS
        /\ last.res.remaining = RATE_LIMIT_MAX_REQUESTS - 1
        /\ last.res.reset = last.at + RATE_LIMIT_WINDOW
        /\ last.fx.writes = {}
    /\ (last.op = "checkRateLimit" /\ ~last.res.allowed) =>
        /\ last.env.getOk
        /\ StoredInWindow >= RATE_LIMIT_MAX_REQUESTS

\* The write failed after a read that found earlier requests of the client.
C24_Witness ==
    /\ StoreFaulted
    /\ last.env.getOk
    /\ StoredInWindow >= 1
    /\ last.res.allowed

----------------------------------------------------------------------------
(* SpecRegistry: calls of getRegistry, one after another, while time       *)
(* passes in steps of one tick or of one freshness window and the source   *)
(* and the store succeed or fail.                                          *)

CallGetRegistry(env, src) ==
    \E r \in {GetRegistry([kv |-> kv, fx |-> NoEffects], now, env, src)} :
        /\ kv' = r.s.kv
        /\ last' = [op |-> "getRegistry", at |-> now, env |-> env, src |-> src,
                    pre |-> kv[RegistryKey], post |-> r.s.kv[RegistryKey],
                    registry |-> r.registry, from |-> r.from, fx |-> r.s.fx]
        /\ UNCHANGED <<now, hist>>

RegistryElapse == \E d \in {1, REGISTRY_CACHE_TTL} : Advance(d, MaxRegistryTime)

NextRegistry ==
    \/ RegistryElapse
    \/ \E env \in StoreEnvs, src \in SourceOutcomes : CallGetRegistry(env, src)

SpecRegistry == Init /\ [][NextRegistry]_vars

\* The store held a logically fresh registry entry when the last call began.
FreshBefore == last.pre.present /\ ~CacheExpired(last.at, last.pre.v)

\* The source answered with a document that has a version and a list of servers.
SourceValid ==
    /\ last.src.kind = "ok"
    /\ last.src.doc.version # ""
    /\ last.src.doc.serversKind = "list"

\* The call left the registry stored as a cache entry created at the call.
CachedNow(registry) ==
    /\ last.post.present
    /\ last.post.v = [data |-> registry, timestamp |-> last.at,
                      ttl |-> REGISTRY_CACHE_TTL]

\* C9 as stated: the cached snapshot when a fresh one exists; otherwise the
\* fetched snapshot, shape-checked and written to the cache; on any failure
\* (cache error, fetch error, non-OK status, invalid shape) the fallback.
C9_AsStated ==
    last.op = "getRegistry" =>
        /\ (FreshBefore /\ last.env.getOk) => last.registry = last.pre.v.data
        /\ (~last.env.getOk \/ ~last.env.putOk) => last.registry = FallbackRegistry
        /\ (~FreshBefore /\ ~SourceValid) => last.registry = FallbackRegistry
        /\ last.from = "source" => (SourceValid /\ CachedNow(last.registry))

\* C9 (amended): getRegistry returns the cached snapshot when a logically fresh
\* one exists and the cache read succeeds, without calling the source; in every
\* other case (miss, expired entry, or cache read error, which counts as a
\* miss) it calls the source once and returns the fetched snapshot if the fetch
\* succeeded and the document passed the shape check, having written it to the
\* cache unless the cache write failed; the fallback snapshot is returned
\* exactly when that fetch failed (transport error, non-OK status, unparsable
\* or invalid document), and is never cached.
C9_GetRegistry ==
    last.op = "getRegistry" =>
        LET cacheUsed == FreshBefore /\ last.env.getOk
        IN  /\ cacheUsed =>
                /\ last.registry = last.pre.v.data
                /\ last.from = "cache"
                /\ last.fx.calls = <<>>
            /\ (~cacheUsed /\ SourceValid) =>
                /\ last.registry = last.src.doc
                /\ last.from = "source"
                /\ last.fx.calls = <<RegistrySourceCall>>
                /\ last.env.putOk => CachedNow(last.registry)
            /\ (~cacheUsed /\ ~SourceValid) =>
                /\ last.registry = FallbackRegistry
                /\ last.from = "fallback"
                /\ last.fx.calls = <<RegistrySourceCall>>
            /\ last.from = "fallback" <=> (~cacheUsed /\ ~SourceValid)
            /\ last.registry.version # ""
            /\ last.registry.serversKind = "list"
            /\ kv[RegistryKey].present => kv[RegistryKey].v.data # FallbackRegistry

\* The cache read failed while a fresh snapshot was stored, the source served a
\* valid document, and the call returned that document, not the fallback.
C9_Witness ==
    /\ last.op = "getRegistry"
    /\ FreshBefore
    /\ ~last.env.getOk
    /\ last.from = "source"
    /\ last.registry = SourceRegistryNext
    /\ last.pre.v.data = SourceRegistry

----------------------------------------------------------------------------
(* SpecCache: calls of setCachedData, getCachedData and deleteCachedData,  *)
(* one after another, while time passes and the store's operations succeed *)
(* or fail.                                                                *)

\* The clock of SpecCache stops at MaxCacheTime: past the store's own expiry
\* of an entry written in the first ticks with the longest ttl.
MaxCacheTime == 5

\* The ttl values callers pass, in ticks (30 s and 60 s), and the values cached.
CacheTtls == {1, 2}
CacheValues == {"v1", "v2"}

CallSetCachedData(key, data, ttl, env) ==
    \E s \in {SetCachedData([kv |-> kv, fx |-> NoEffects], key, data, ttl, now, env)} :
        /\ kv' = s.kv
        /\ last' = [op |-> "setCachedData", at |-> now, key |-> key, env |-> env,
                    ok |-> env.putOk, fx |-> s.fx]
        /\ hist' = IF env.putOk
                   THEN [hist EXCEPT !.written[key] =
                            [present |-> TRUE, data |-> data, at |-> now, ttl |-> ttl]]
                   ELSE hist
        /\ UNCHANGED now

CallGetCachedData(key, env) ==
    \E r \in {GetCachedData([kv |-> kv, fx |-> NoEffects], key, now, env)} :
        /\ kv' = r.s.kv
        /\ last' = [op |-> "getCachedData", at |-> now, key |-> key, env |-> env,
                    hit |-> r.hit, data |-> r.data, pre |-> kv[key],
                    post |-> r.s.kv[key],
                    othersKept |-> \A k \in Keys \ {key} : r.s.kv[k] = kv[k],
                    fx |-> r.s.fx]
        /\ UNCHANGED <<now, hist>>

CallDeleteCachedData(key, env) ==
    \E s \in {DeleteCachedData([kv |-> kv, fx |-> NoEffects], key, env)} :
        /\ kv' = s.kv
        /\ last' = [op |-> "deleteCachedData", at |-> now, key |-> key, env |-> env,
                    ok |-> env.putOk, fx |-> s.fx]
        /\ hist' = IF env.putOk THEN [hist EXCEPT !.written[key] = NoEntry] ELSE hist
        /\ UNCHANGED now

CacheElapse == Advance(1, MaxCacheTime)

CacheSet ==
    \E key \in CacheKeys, data \in CacheValues, ttl \in CacheTtls, env \in StoreEnvs :
        CallSetCachedData(key, data, ttl, env)

CacheGet == \E key \in CacheKeys, env \in StoreEnvs : CallGetCachedData(key, env)

CacheDelete == \E key \in CacheKeys, env \in StoreEnvs : CallDeleteCachedData(key, env)

NextCache ==
    \/ CacheElapse
    \/ CacheSet
    \/ CacheGet
    \/ CacheDelete

SpecCache == Init /\ [][NextCache]_vars

\* What setCachedData last stored under the key of the last get, if that was
\* neither overwritten nor removed by deleteCachedData since.
Written == hist.written[last.key]

\* C11 as stated: a value written with ttl T at t0 is returned by every get up
\* to t0 + T; every get after t0 + T is a miss and deletes the key the store
\* still holds.
C11_AsStated ==
    (last.op = "getCachedData" /\ Written.present) =>
        /\ last.at <= Written.at + Written.ttl =>
                (last.hit /\ last.data = Written.data)
        /\ last.at > Written.at + Written.ttl =>
                (~last.hit /\ ~last.post.present)

\* C11 (amended): while the store's read succeeds, a value written with ttl T
\* at t0 (not overwritten or deleted since) is returned by every get up to
\* t0 + T, which leaves the store as it was, and every get after t0 + T is a
\* miss, although the store keeps the entry until t0 + T + 60 s; such a get
\* deletes the key unless the store's delete fails.  A get whose store read
\* fails is a miss at any time and leaves the store as it was.  No get touches
\* another key.
C11_CacheFreshness ==
    (last.op = "getCachedData" /\ Written.present) =>
        LET deadline == Written.at + Written.ttl
            held == last.at < deadline + CacheTtlBuffer
        IN  /\ last.at <= deadline => last.pre.present
            /\ last.pre.present => held
            /\ (last.env.getOk /\ last.at <= deadline) =>
                    /\ last.hit
                    /\ last.data = Written.data
                    /\ last.post = last.pre
            /\ (last.env.getOk /\ last.at > deadline) =>
                    /\ ~last.hit
                    /\ (held /\ last.env.putOk) => ~last.post.present
                    /\ ~last.env.putOk => last.post = last.pre
            /\ ~last.env.getOk => (~last.hit /\ last.post = last.pre)
            /\ last.othersKept

\* A get after t0 + T found the entry still in the store, answered a miss and
\* deleted the key.
C11_Witness ==
    /\ last.op = "getCachedData"
    /\ Written.present
    /\ last.env.getOk
    /\ last.at > Written.at + Written.ttl
    /\ last.pre.present
    /\ last.pre.v.data = Written.data
    /\ ~last.hit
    /\ ~last.post.present

----------------------------------------------------------------------------
(* SpecProbe: calls of checkServerHealth, one after another, for every     *)
(* server of the source's registry and every outcome of the probe.         *)

MaxProbeTime == 1

ProbedServers == {ServerA, ServerB, ServerC}

\* Responses of every class of status, fast, at the 10 s mark and past it.
ProbeResponses ==
    {Probe("response", status, elapsed, NothingThrown) :
        status \in {200, 204, 404, 429, 500, 503}, elapsed \in {8, 10000, 10001}}

\* The abort by the 30 s timer and the transport failures.
ProbeThrows ==
    {Probe("throw", 0, HEALTH_CHECK_TIMEOUT, AbortError)}
    \cup {Probe("throw", 0, 8, thrown) :
            thrown \in {FetchFailed, NetworkDown, ConnectionRefused, ConnectionTimeout,
                        NotAnError}}

CallCheckServerHealth(server, probe) ==
    /\ last' = [op |-> "checkServerHealth", at |-> now, server |-> server,
                probe |-> probe, res |-> CheckServerHealth(server, probe, now)]
    /\ UNCHANGED <<now, kv, hist>>

ProbeTick == Advance(1, MaxProbeTime)

ProbeAnswered ==
    \E server \in ProbedServers, probe \in ProbeResponses :
        CallCheckServerHealth(server, probe)

ProbeThrew ==
    \E server \in ProbedServers, probe \in ProbeThrows :
        CallCheckServerHealth(server, probe)

NextProbe ==
    \/ ProbeTick
    \/ ProbeAnswered
    \/ ProbeThrew

SpecProbe == Init /\ [][NextProbe]_vars

\* The last probe got a response with a status of 200 to 299.
ProbeSucceeded ==
    /\ last.probe.kind = "response"
    /\ last.probe.status >= 200
    /\ last.probe.status <= 299

\* What every classification has in common: a success within 10 s is online, a
\* slower one degraded, a status of 500 and above degraded, any other status
\* offline, and the abort by the timer degraded with a timeout reason.
ClassifiedAsAgreed ==
    /\ last.res.serverId = last.server.id
    /\ last.res.responseTime = last.probe.elapsed
    /\ (ProbeSucceeded /\ last.probe.elapsed <= 10000) => last.res.status = "online"
    /\ (ProbeSucceeded /\ last.probe.elapsed > 10000) => last.res.status = "degraded"
    /\ (last.probe.kind = "response" /\ last.probe.status >= 500) =>
            last.res.status = "degraded"
    /\ (last.probe.kind = "response" /\ ~ProbeSucceeded /\ last.probe.status < 500) =>
            last.res.status = "offline"
    /\ last.probe.kind = "response" => last.res.error = ""
    /\ (last.probe.kind = "throw" /\ last.probe.thrown = AbortError) =>
            (last.res.status = "degraded" /\ last.res.error = "Request timeout")

\* C14 as stated: the classification above, and any transport failure other
\* than the abort by the timer gives offline with a network-error reason.
C14_AsStated ==
    last.op = "checkServerHealth" =>
        /\ ClassifiedAsAgreed
        /\ (last.probe.kind = "throw" /\ last.probe.thrown # AbortError) =>
                (last.res.status = "offline" /\ last.res.error = "Network error")

\* C14 (amended): checkServerHealth always returns a result for the server
\* probed: a success within 10 s is online, a slower one degraded, a status of
\* 500 and above degraded, any other status offline; the abort by the timer,
\* and any failure whose message contains "timeout", is degraded with the
\* reason "Request timeout"; any other failure is offline, with the reason
\* "Network error" when its message contains "fetch" or "network", "Unknown
\* error" when the thrown value is not an Error, and the failure's own message
\* otherwise.
C14_Classification ==
    last.op = "checkServerHealth" =>
        /\ ClassifiedAsAgreed
        /\ (last.probe.kind = "throw" /\ last.probe.thrown = ConnectionTimeout) =>
                (last.res.status = "degraded" /\ last.res.error = "Request timeout")
        /\ (last.probe.kind = "throw" /\ last.probe.thrown \in {FetchFailed, NetworkDown}) =>
                (last.res.status = "offline" /\ last.res.error = "Network error")
        /\ (last.probe.kind = "throw" /\ last.probe.thrown = ConnectionRefused) =>
                (last.res.status = "offline" /\ last.res.error = "connect ECONNREFUSED")
        /\ (last.probe.kind = "throw" /\ last.probe.thrown = NotAnError) =>
                (last.res.status = "offline" /\ last.res.error = "Unknown error")

\* A refused connection was classified offline, with the failure's own message.
C14_Witness ==
    /\ last.op = "checkServerHealth"
    /\ last.probe.kind = "throw"
    /\ last.probe.thrown = ConnectionRefused
    /\ last.res.status = "offline"
    /\ last.res.error = "connect ECONNREFUSED"

----------------------------------------------------------------------------
(* SpecProxy: direct calls of proxyRequest, one after another.  The inputs *)
(* are drawn from three slices: every target path, every server and        *)
(* method, and every header map and body.                                  *)

ProxyInput(serverId, path, method, headers, body) ==
    [serverId |-> serverId, path |-> path, method |-> method, headers |-> headers,
     body |-> body]

NoHeaders == [n \in {} |-> ""]

CallerHeaders ==
    {NoHeaders,
     [n \in {"accept", "Connection", "X-Custom", "Authorization"} |->
        IF n = "Authorization" THEN "Bearer caller-token" ELSE "x"],
     [n \in {"Cache-Control", "connection", "authorization"} |->
        IF n = "authorization" THEN "Bearer lower-token" ELSE "y"]}

Bodies == {NoBody, Body("string", 0), Body("string", 1), Body("object", MAX_BODY_SIZE + 1)}

RequestedIds == {"A", "B", "C", "Z"}

SourceUp == SourceOutcome("ok", SourceRegistry)
SourceDown == SourceOutcome("http-error", FallbackRegistry)
BrokenStore == [getOk |-> FALSE, putOk |-> FALSE]

\* The registry source up or down.
SourceUpOrDown == {SourceUp, SourceDown}

\* Servers that answer every probe at once and serve no schema.
QuietNet ==
    Net([id \in ServerIds |-> Probe("response", 200, 8, NothingThrown)],
        [id \in ServerIds |-> SchemaOutcome("http-error", SchemaDoc("", <<>>, <<>>, <<>>, {}, 0))])

CallProxyRequest(in, env, src, up) ==
    /\ hist.ops < MaxProxyCalls
    /\ LET s0 == [kv |-> kv, fx |-> NoEffects]
       IN  \E r \in {ProxyRequest(s0, "10.0.0.1", now, env, src, up, in.serverId,
                                  in.path, in.method, in.headers, in.body)} :
            /\ kv' = r.s.kv
            /\ last' = [op |-> "proxyRequest", at |-> now, in |-> in, env |-> env,
                        src |-> src, up |-> up, res |-> r.res, fx |-> r.s.fx,
                        snapshot |-> GetRegistry(s0, now, env, src).registry]
            /\ hist' = [hist EXCEPT !.ops = @ + 1]
            /\ UNCHANGED now

Pong == Upstream("response", 200, "pong", 8)

\* Every target path, against a server on the default port and one on a port of
\* its own.
PathInputs ==
    {ProxyInput(id, path, "GET", NoHeaders, NoBody) : id \in {"A", "C"}, path \in TargetPaths}

\* Every server id and method.
ServerInputs ==
    {ProxyInput(id, RefPing, method, NoHeaders, NoBody) :
        id \in RequestedIds \cup {"example-mcp"}, method \in MethodTokens}

\* Every caller header map, to a server without and one with authentication.
HeaderInputs ==
    {ProxyInput(id, RefPing, "GET", headers, NoBody) :
        id \in {"A", "C"}, headers \in CallerHeaders}

\* Every body, with a method that carries one and a method that does not.
BodyInputs ==
    {ProxyInput("A", RefPing, method, NoHeaders, body) :
        method \in {"GET", "POST"}, body \in Bodies}

PingInputs == {ProxyInput("A", RefPing, "GET", NoHeaders, NoBody)}

\* The store and the registry source, each up or down.
Surroundings == {WorkingStore, BrokenStore} \X {SourceUp, SourceDown}

\* The same, without both down at once.
OneDown == Surroundings \ {<<BrokenStore, SourceDown>>}

ProxyToPath ==
    \E in \in PathInputs : CallProxyRequest(in, WorkingStore, SourceUp, Pong)

ProxyToServer ==
    \E in \in ServerInputs, e \in OneDown : CallProxyRequest(in, e[1], e[2], Pong)

ProxyWithHeaders ==
    \E in \in HeaderInputs : CallProxyRequest(in, WorkingStore, SourceUp, Pong)

ProxyWithBody ==
    \E in \in BodyInputs : CallProxyRequest(in, WorkingStore, SourceUp, Pong)

\* Every outcome of the proxied call, with the store's reads and writes up or down.
ProxyUpstream ==
    \E in \in PingInputs, up \in UpstreamOutcomes, env \in StoreEnvs :
        CallProxyRequest(in, env, SourceUp, up)

ProxyTick == Advance(1, MaxGatewayTime)

NextProxy ==
    \/ ProxyTick
    \/ ProxyToPath
    \/ ProxyToServer
    \/ ProxyWithHeaders
    \/ ProxyWithBody
    \/ ProxyUpstream

SpecProxy == Init /\ [][NextProxy]_vars

\* The proxied outbound calls of the last operation.
ProxyCalls == SelectSeq(last.fx.calls, LAMBDA c : c.kind = "proxy")

ProxyKeys == {k \in Keys : k[1] \in {"proxy_log", "proxy_stats"}}

\* The server the last proxyRequest named, in the snapshot the registry served.
Target == FindServer(last.snapshot, last.in.serverId)

\* C3: proxyRequest issues no outbound call to an origin other than that of the
\* target server's registered url; whenever the caller's path resolves against
\* server.url to another origin, the result is an error and no call is made.
C3_SameOriginOnly ==
    last.op = "proxyRequest" =>
        /\ \A i \in 1..Len(ProxyCalls) :
                /\ Target.found
                /\ <<ProxyCalls[i].url.scheme, ProxyCalls[i].url.host,
                     NormalPort(ProxyCalls[i].url.scheme, ProxyCalls[i].url.port)>>
                   = <<Target.server.url.scheme, Target.server.url.host,
                       NormalPort(Target.server.url.scheme, Target.server.url.port)>>
        /\ (/\ Target.found
            /\ last.in.path.kind \in {"absolute", "scheme-relative"}
            /\ \/ last.in.path.host # Target.server.url.host
               \/ NormalPort(Target.server.url.scheme, last.in.path.port)
                    # NormalPort(Target.server.url.scheme, Target.server.url.port)
               \/ (last.in.path.kind = "absolute"
                   /\ last.in.path.scheme # Target.server.url.scheme))
           => (/\ ~last.res.success
               /\ last.res.error # ""
               /\ ProxyCalls = <<>>)

\* A path naming the registered host on another port was refused with the
\* origin error, after the limiter admitted the call.
C3_Witness ==
    /\ last.op = "proxyRequest"
    /\ last.in.path = RefOtherPort
    /\ last.in.serverId = "A"
    /\ last.res.error = "Target URL must be within the server's domain"
    /\ ProxyCalls = <<>>

\* C4: when the server id is not in the registry snapshot, or the server's
\* status is offline, or the method is outside the allow-list, proxyRequest
\* returns an error result, issues no outbound call to a server and writes no
\* proxy log and no proxy statistics.
C4_RejectedBeforeCall ==
    (/\ last.op = "proxyRequest"
     /\ \/ ~Target.found
        \/ Target.server.healthStatus = "offline"
        \/ ToUpperCase(last.in.method) \notin ALLOWED_METHODS)
    => (/\ ~last.res.success
        /\ last.res.error # ""
        /\ ProxyCalls = <<>>
        /\ last.fx.writes \cap ProxyKeys = {})

\* An offline server was named with an allowed method and refused.
C4_Witness ==
    /\ last.op = "proxyRequest"
    /\ Target.found
    /\ Target.server.healthStatus = "offline"
    /\ last.in.method = "GET"
    /\ last.res.error = "Server is currently offline"
    /\ ProxyCalls = <<>>

----------------------------------------------------------------------------
(* Spec: requests reach the worker's fetch handler one after another from  *)
(* one client, each handled to completion, while time passes and the       *)
(* store, the registry source and the proxied server answer or fail.       *)

\* The search parameters the handlers read, when the URL has none.
NoQuery ==
    [force |-> FALSE, refresh |-> FALSE, q |-> <<>>, tags |-> <<>>, verified |-> "",
     limit |-> NoParam, offset |-> NoParam]

\* No JSON body for /api/submit.
NoCandidate == [none |-> TRUE]

Request(method, path, payload) ==
    [method |-> method, path |-> path, payload |-> payload, query |-> NoQuery,
     candidate |-> NoCandidate]

NoPayload == Payload(FALSE, "", RefMissing, "", NoHeaders, NoBody)

PingPayload(id) == Payload(TRUE, id, RefPing, "GET", NoHeaders, NoBody)

\* Requests that carry no payload.
PlainRequests ==
    {Request(m, path, NoPayload) :
        m \in {"GET"},
        path \in {<<>>, <<"health">>, <<"nope">>, <<"api">>, <<"api", "unknown">>,
                  <<"api", "servers">>, <<"api", "servers", "A">>,
                  <<"api", "servers", "Z">>, <<"api", "servers", "A", "schema">>,
                  <<"api", "servers", "Z", "schema">>,
                  <<"api", "servers", "A", "tools">>, <<"api", "stats">>,
                  <<"api", "submit">>, <<"api", "proxy">>}}
    \cup {Request(m, path, NoPayload) :
            m \in {"POST", "OPTIONS"},
            path \in {<<"api", "servers">>, <<"api", "stats">>, <<"api", "submit">>}}
    \cup {Request("GET", <<"api", "health">>, NoPayload),
          Request("GET", <<"api", "schema">>, NoPayload),
          Request("POST", <<"api", "health">>, NoPayload),
          Request("POST", <<"health">>, NoPayload)}

ProxyPayloads ==
    {PingPayload(id) : id \in RequestedIds \cup {"example-mcp"}}
    \cup {Payload(TRUE, "A", path, "GET", NoHeaders, NoBody) :
            path \in {RefEvil, RefSameOrigin, RefInvalid, RefMissing}}
    \cup {Payload(TRUE, "A", RefPing, m, NoHeaders, NoBody) : m \in {"get", "TRACE", ""}}
    \cup {Payload(TRUE, "", RefPing, "GET", NoHeaders, NoBody),
          Payload(TRUE, "A", RefPing, "POST", NoHeaders, Body("object", MAX_BODY_SIZE + 1)),
          Payload(FALSE, "", RefMissing, "", NoHeaders, NoBody)}

\* The requests that read the registry.
RegistryRequests ==
    {req \in PlainRequests : Len(req.path) >= 2 /\ req.path[2] \in {"servers", "stats"}}

\* The store with every read and write succeeding, or every one failing.
UpOrDown == {WorkingStore, BrokenStore}

\* One request handled by the worker's fetch: the store afterwards and the
\* record of the request, of its surroundings and of the response.
Fetched(req, env, src, up, rt, net) ==
    LET s0 == [kv |-> kv, fx |-> NoEffects]
    IN  \E r \in {WorkerFetch(s0, req, "10.0.0.1", now, env, src, up, rt, net)} :
        /\ kv' = r.s.kv
        /\ last' = [op |-> "fetch", at |-> now, req |-> req, env |-> env, src |-> src,
                    up |-> up, rt |-> rt, net |-> net, resp |-> r.resp, hr |-> r.hr,
                    rl |-> r.rl, fx |-> r.s.fx,
                    pre |-> kv[<<"rate_limit", "10.0.0.1">>], before |-> kv,
                    snapshot |-> GetRegistry(s0, now, env, src).registry]

Fetch(req, env, src, up, rt) ==
    /\ Fetched(req, env, src, up, rt, QuietNet)
    /\ UNCHANGED <<now, hist>>

\* Every plain request, with the store up or down.
FetchPlain ==
    \E req \in PlainRequests, env \in UpOrDown :
        Fetch(req, env, SourceUp, Pong, "strict")

\* Every request that reads the registry, with the registry source down.
FetchSourceDown ==
    \E req \in RegistryRequests, env \in UpOrDown :
        Fetch(req, env, SourceDown, Pong, "strict")

GatewayTick == Advance(1, MaxGatewayTime)

Next ==
    \/ GatewayTick
    \/ FetchPlain
    \/ FetchSourceDown

Spec == Init /\ [][Next]_vars

\* The last request was admitted by the limiter.
Admitted == last.op = "fetch" /\ last.rl.allowed

\* The methods of the routes of the HTTP surface: GET for the registry, health,
\* schema, stats and liveness routes, POST for proxy and submit; none for a
\* path that matches no route.
RouteMethods(path) ==
    IF path \in {<<>>, <<"health">>} THEN {"GET"}
    ELSE IF Len(path) < 2 \/ path[1] # "api" THEN {}
    ELSE IF path[2] = "servers"
    THEN IF Len(path) <= 3 \/ (Len(path) = 4 /\ path[4] = "schema") THEN {"GET"} ELSE {}
    ELSE IF Len(path) > 2 THEN {}
    ELSE IF path[2] \in {"health", "schema", "stats"} THEN {"GET"}
    ELSE IF path[2] \in {"proxy", "submit"} THEN {"POST"}
    ELSE {}

\* C19: every request the limiter admits (preflight requests aside) is
\* answered with a formatted envelope: 404 for a path that matches no route,
\* 405 for a known route called with a method it does not support, and a
\* failure envelope whenever the status is 500.
C19_AdmittedRequestsFormatted ==
    (Admitted /\ last.req.method # "OPTIONS") =>
        /\ last.resp.kind = "envelope"
        /\ RouteMethods(last.req.path) = {} => last.resp.status = 404
        /\ ( /\ RouteMethods(last.req.path) # {}
             /\ last.req.method \notin RouteMethods(last.req.path) ) =>
                last.resp.status = 405
        /\ last.resp.status = 500 => ~last.resp.success

\* The last request was GET /health or GET /.
LivenessAsked ==
    /\ last.op = "fetch"
    /\ last.req.method = "GET"
    /\ last.req.path \in {<<>>, <<"health">>}

\* C20 as stated: GET /health and GET / are answered 200 whatever the state
\* of the client's rate-limit window.
C20_AsStated == LivenessAsked => last.resp.status = 200

\* C20: GET /health and GET / are answered 200 with the status "healthy"
\* whenever the limiter admits the request, whether the store works or not;
\* a client whose rate-limit window is full is answered 429.
C20_LivenessWhenAdmitted ==
    LivenessAsked =>
        /\ last.rl.allowed =>
            /\ last.resp.status = 200
            /\ last.resp.success
            /\ last.resp.data.status = "healthy"
        /\ ~last.rl.allowed => last.resp.status = 429

\* GET / was answered 200 as the last request the client's window admits.
C20_Witness ==
    /\ LivenessAsked
    /\ last.req.path = <<>>
    /\ last.rl.allowed
    /\ last.rl.remaining = 0
    /\ last.env.getOk
    /\ last.resp.status = 200

----------------------------------------------------------------------------
(* SpecHealth: sweeps of the health monitor (the worker's scheduled         *)
(* handler and GET /api/health?force=true) among reads of what they stored *)
(* and of the registry, one after another.                                 *)

\* SpecHealth runs at most MaxHealthOps sweeps and reads; its clock stops at
\* MaxHealthTime.
MaxHealthOps == 3
MaxHealthTime == 1

\* The history after one more operation.
Counted(h) == [h EXCEPT !.ops = @ + 1]

Healthy == Probe("response", 200, 8, NothingThrown)
Slow == Probe("response", 200, 10001, NothingThrown)
NotFound == Probe("response", 404, 8, NothingThrown)
Unavailable == Probe("response", 503, 8, NothingThrown)
Aborted == Probe("throw", 0, HEALTH_CHECK_TIMEOUT, AbortError)
Rejecting == Probe("rejected", 0, 0, ConnectionRefused)

\* What each server's probe ends in: a for "A", b for "B", c for the others.
Probes(a, b, c) ==
    [id \in ServerIds |-> CASE id = "A" -> a [] id = "B" -> b [] OTHER -> c]

SweepProbes ==
    {Probes(Healthy, Healthy, Healthy), Probes(NotFound, Slow, Aborted),
     Probes(Rejecting, Healthy, Unavailable), Probes(Healthy, Slow, Healthy)}

SweepNets == {Net(probes, QuietNet.schemas) : probes \in SweepProbes}

\* The requests of SpecHealth.
HealthQuery(force) == [NoQuery EXCEPT !.force = force]

HealthRequest(method, force) ==
    [Request(method, <<"api", "health">>, NoPayload) EXCEPT !.query = HealthQuery(force)]

HealthReads ==
    {HealthRequest("GET", FALSE), HealthRequest("POST", FALSE)}
    \cup {Request("GET", <<"api", "servers", id>>, NoPayload) : id \in {"A", "B"}}

ForcedChecks == {HealthRequest("GET", TRUE)}

\* The monitor's history after a sweep that produced results.
Monitored(h, results) ==
    [h EXCEPT !.monitor =
        [id \in ServerIds |->
            IF \E i \in 1..Len(results) : results[i].serverId = id
            THEN results[CHOOSE i \in 1..Len(results) : results[i].serverId = id].status
            ELSE @[id]]]

\* The worker's scheduled(event, env, ctx): one sweep.
CallScheduled(env, src, probes) ==
    /\ hist.ops < MaxHealthOps
    /\ \E r \in {CheckAllServersHealth([kv |-> kv, fx |-> NoEffects], now, env, src, probes)} :
        /\ kv' = r.s.kv
        /\ last' = [op |-> "scheduled", at |-> now, env |-> env, src |-> src,
                    probes |-> probes, results |-> r.results, servers |-> r.servers,
                    summary |-> r.s.kv[HealthSummaryKey], fx |-> r.s.fx]
        /\ hist' = Counted(Monitored(hist, r.results))
        /\ UNCHANGED now

CallGetServerHealthStatus(serverId, env) ==
    /\ hist.ops < MaxHealthOps
    /\ \E r \in {GetServerHealthStatus([kv |-> kv, fx |-> NoEffects], serverId, now, env)} :
        /\ kv' = r.s.kv
        /\ last' = [op |-> "getServerHealthStatus", at |-> now, serverId |-> serverId,
                    env |-> env, hit |-> r.hit, data |-> r.data,
                    pre |-> kv[<<"health", serverId>>], fx |-> r.s.fx]
        /\ hist' = Counted(hist)
        /\ UNCHANGED now

HealthTick == Advance(1, MaxHealthTime)

Sweep ==
    \E e \in OneDown, probes \in SweepProbes : CallScheduled(e[1], e[2], probes)

\* A read of the stored summary or of a server record, with the store up or down.
FetchHealthRead ==
    /\ hist.ops < MaxHealthOps
    /\ \E req \in HealthReads, env \in UpOrDown :
        /\ Fetched(req, env, SourceUp, Pong, "strict", QuietNet)
        /\ hist' = Counted(hist)
        /\ UNCHANGED now

\* GET /api/health?force=true: a sweep, if the limiter admits the request.
FetchForcedCheck ==
    /\ hist.ops < MaxHealthOps
    /\ \E req \in ForcedChecks, env \in UpOrDown, net \in SweepNets :
        /\ Fetched(req, env, SourceUp, Pong, "strict", net)
        /\ hist' = IF last'.resp.status = 200
                   THEN Counted(Monitored(hist, last'.resp.data.results))
                   ELSE Counted(hist)
        /\ UNCHANGED now

ReadServerHealth ==
    \E id \in {"A", "B"}, env \in UpOrDown : CallGetServerHealthStatus(id, env)

NextHealth ==
    \/ HealthTick
    \/ Sweep
    \/ FetchHealthRead
    \/ FetchForcedCheck
    \/ ReadServerHealth

SpecHealth == Init /\ [][NextHealth]_vars

\* The last operation was a sweep: the scheduled handler, or an admitted
\* GET /api/health?force=true.
Swept ==
    \/ last.op = "scheduled"
    \/ last.op = "fetch" /\ last.req \in ForcedChecks /\ last.resp.status = 200

\* The results, the snapshot and the probe outcomes of the last sweep.
SweepResults == IF last.op = "scheduled" THEN last.results ELSE last.resp.data.results
SweepServers == IF last.op = "scheduled" THEN last.servers ELSE last.snapshot.servers
SweepOutcomes == IF last.op = "scheduled" THEN last.probes ELSE last.net.probes

\* The number of the last sweep's results of one status.
Tally(status) ==
    Cardinality({i \in 1..Len(SweepResults) : SweepResults[i].status = status})

\* The counts of a summary are those of the last sweep's results.
Summarises(summary) ==
    /\ summary.totalServers = Len(SweepServers)
    /\ summary.onlineServers = Tally("online")
    /\ summary.degradedServers = Tally("degraded")
    /\ summary.offlineServers = Tally("offline")
    /\ summary.totalServers
            = summary.onlineServers + summary.degradedServers + summary.offlineServers

\* C15: a sweep over a snapshot of N servers yields exactly N results, one per
\* server in snapshot order, each online, degraded or offline; a probe whose
\* promise rejects is recorded as offline with the error's message; and the
\* summary (the one the sweep stores, when the store takes it, and the one a
\* forced GET /api/health answers with) has totalServers = N = onlineServers +
\* degradedServers + offlineServers, each count that of the results.
C15_SweepComplete ==
    Swept =>
        /\ Len(SweepResults) = Len(SweepServers)
        /\ \A i \in 1..Len(SweepServers) :
            /\ SweepResults[i].serverId = SweepServers[i].id
            /\ SweepResults[i].status \in {"online", "degraded", "offline"}
            /\ SweepOutcomes[SweepServers[i].id].kind = "rejected" =>
                    /\ SweepResults[i].status = "offline"
                    /\ SweepResults[i].error = SweepOutcomes[SweepServers[i].id].thrown.message
        /\ (last.op = "scheduled" /\ last.env.putOk) =>
                (last.summary.present /\ Summarises(last.summary.v))
        /\ last.op = "fetch" => Summarises(last.resp.data)

\* A sweep over three servers, the probe of the first rejecting and another
\* degraded, stored a summary of three.
C15_Witness ==
    /\ last.op = "scheduled"
    /\ Len(last.servers) = 3
    /\ last.probes["A"].kind = "rejected"
    /\ last.results[1].status = "offline"
    /\ last.results[3].status = "degraded"
    /\ last.summary.present
    /\ last.summary.v.totalServers = 3
    /\ last.summary.v.offlineServers = 1

\* C12: while the store holds what a sweep stored, a non-forced GET
\* /api/health answers with the stored summary (the same totalServers,
\* onlineServers, degradedServers and offlineServers), and
\* getServerHealthStatus(id) returns the result the sweep stored for that id.
C12_StoredHealthServed ==
    /\ ( /\ last.op = "fetch"
         /\ last.req = HealthRequest("GET", FALSE)
         /\ last.resp.status = 200
         /\ last.env.getOk
         /\ last.before[HealthSummaryKey].present ) =>
            /\ "totalServers" \in DOMAIN last.resp.data
            /\ \A f \in {"totalServers", "onlineServers", "degradedServers",
                         "offlineServers"} :
                    last.resp.data[f] = last.before[HealthSummaryKey].v[f]
    /\ ( /\ last.op = "getServerHealthStatus"
         /\ last.env.getOk
         /\ last.pre.present ) =>
            (last.hit /\ last.data = last.pre.v)

\* C13: the healthStatus of a server record the registry serves is the status
\* of the most recent result of the health monitor for that id, or "unknown"
\* if there is none.
C13_HealthStatusFollowsMonitor ==
    ( /\ last.op = "fetch"
      /\ last.req.method = "GET"
      /\ Len(last.req.path) = 3
      /\ last.req.path[2] = "servers"
      /\ last.resp.status = 200 ) =>
        last.resp.data.healthStatus =
            (IF hist.monitor[last.req.path[3]] = "none" THEN "unknown"
             ELSE hist.monitor[last.req.path[3]])

----------------------------------------------------------------------------
(* SpecMerge: mergeSchemas applied to the schemas fetchServerSchema builds *)
(* for up to three servers.                                                *)

MaxMergeTime == 1

Search == <<"search">>
FetchPage == <<"fetch">>

\* The tool name "A:search".
QualifiedSearch == <<"A", "search">>

\* The documents a server may serve: up to two tools (one name possibly
\* listed twice, or one with a colon in it), or a resource and a prompt
\* called like the tool "search".
MergeDocs ==
    { SchemaDoc("", tools, <<>>, <<>>, {}, 1) :
        tools \in {<<>>, <<Search>>, <<Search, FetchPage>>, <<Search, Search>>,
                   <<Search, QualifiedSearch>>} }
    \cup { SchemaDoc("", <<Search>>, <<Search>>, <<>>, {}, 1),
           SchemaDoc("", <<>>, <<Search>>, <<Search>>, {}, 1) }

MergedIds == {"A", "B", "C"}

\* The servers whose schemas are merged, in the order of the registry.
MergedServers ==
    {<<>>, <<ServerA>>, <<ServerB>>, <<ServerA, ServerB>>, <<ServerA, ServerC>>,
     <<ServerA, ServerB, ServerC>>}

\* The lists of schemas mergeSchemas is applied to.
MergeInputs ==
    { [i \in 1..Len(servers) |-> NormalizeSchema(servers[i], docs[servers[i].id], 0)] :
        servers \in MergedServers, docs \in [MergedIds -> MergeDocs] }

CallMergeSchemas(schemas) ==
    /\ last' = [op |-> "mergeSchemas", schemas |-> schemas, at |-> now,
                result |-> MergeSchemas(schemas, now)]
    /\ UNCHANGED <<now, kv, hist>>

MergeTick == Advance(1, MaxMergeTime)

Merge == \E schemas \in MergeInputs : CallMergeSchemas(schemas)

NextMerge ==
    \/ MergeTick
    \/ Merge

SpecMerge == Init /\ [][NextMerge]_vars

Kinds == {"tools", "resources", "prompts"}

\* The type of the conflict records of a kind.
TypeOf(kind) ==
    CASE kind = "tools" -> "tool"
      [] kind = "resources" -> "resource"
      [] kind = "prompts" -> "prompt"

\* The entries of a kind that the merged schemas contribute, in order.
Pool(kind) == Collect(last.schemas, 1, kind)

\* The entries of the pool of a kind that carry a name.
Carrying(kind, name) == SelectSeq(Pool(kind), LAMBDA it : it.name = name)

\* The entries of a sequence, as a set.
Range(seq) == {seq[i] : i \in 1..Len(seq)}

\* The conflict records of the result for a name of a kind.
ConflictsOn(kind, name) ==
    SelectSeq(last.result.conflicts,
              LAMBDA c : c.type = TypeOf(kind) /\ c.name = name)

\* The merge of one kind treats a name as a name of that many contributors.
RenamedPer(kind, name, contributors) ==
    LET carrying == Carrying(kind, name)
        records == ConflictsOn(kind, name)
    IN  IF contributors = 1
        THEN /\ \A i \in 1..Len(carrying) : carrying[i] \in Range(last.result[kind])
             /\ records = <<>>
        ELSE /\ \A i \in 1..Len(carrying) :
                    [carrying[i] EXCEPT !.name = <<carrying[i].namespace>> \o name]
                        \in Range(last.result[kind])
             /\ \A it \in Range(last.result[kind]) :
                    it.name = name =>
                        \E e \in Range(Pool(kind)) :
                            /\ e.name # name
                            /\ Len(Carrying(kind, e.name)) >= 2
                            /\ it = [e EXCEPT !.name = <<e.namespace>> \o e.name]
             /\ Len(records) = 1
             /\ records[1].resolution = "namespace"
             /\ records[1].servers
                    = [i \in 1..Len(carrying) |-> carrying[i].namespace]

----------------------------------------------------------------------------
(* SpecFederation: /api/schema through the worker's fetch, while the       *)
(* servers' schema documents change and their fetches fail, and the clock  *)
(* passes the hour for which schemas are cached.                           *)

\* The clock of SpecFederation stops one tick past SCHEMA_CACHE_TTL.
MaxFederations == 2
MaxFederationTime == 121

\* A registry document in which the three servers are online.
AllOnlineRegistry ==
    [SourceRegistry EXCEPT
        !.servers = <<ServerA, [ServerB EXCEPT !.healthStatus = "online"],
                      [ServerC EXCEPT !.healthStatus = "online"]>>,
        !.stats = [totalServers |-> 3, onlineServers |-> 3, totalRequests |-> 0]]

FederationSources == {SourceUp, SourceOutcome("ok", AllOnlineRegistry)}

DocOne == SchemaDoc("", <<Search>>, <<>>, <<>>, {"tools"}, 1)
DocTwo == SchemaDoc("ns", <<Search, FetchPage>>, <<Search>>, <<>>, {"tools", "resources"}, 2)
DocOversize == SchemaDoc("", <<Search>>, <<>>, <<>>, {"tools"}, MAX_SCHEMA_SIZE + 1)
NoDoc == SchemaDoc("", <<>>, <<>>, <<>>, {}, 0)

Serves(doc) == SchemaOutcome("ok", doc)
SchemaHttpError == SchemaOutcome("http-error", NoDoc)
SchemaTimeout == SchemaOutcome("timeout", NoDoc)
SchemaNetworkError == SchemaOutcome("network-error", NoDoc)
SchemaUnparsable == SchemaOutcome("unparsable", NoDoc)

\* What each server's schema fetch ends in: a for "A", b for "B", c for the
\* others.
Schemas(a, b, c) ==
    [id \in ServerIds |-> CASE id = "A" -> a [] id = "B" -> b [] OTHER -> c]

FederationSchemas ==
    {Schemas(Serves(DocOne), Serves(DocOne), Serves(DocTwo)),
     Schemas(Serves(DocTwo), SchemaTimeout, Serves(DocOne)),
     Schemas(SchemaHttpError, Serves(DocOversize), SchemaUnparsable),
     Schemas(SchemaNetworkError, Serves(DocOne), Serves(DocOversize))}

FederationNets == {Net(QuietNet.probes, schemas) : schemas \in FederationSchemas}

SchemaRequest(method, refresh) ==
    [Request(method, <<"api", "schema">>, NoPayload) EXCEPT !.query.refresh = refresh]

SchemaReads == {SchemaRequest("GET", FALSE), SchemaRequest("GET", TRUE)}

SchemaPosts == {SchemaRequest("POST", FALSE)}

\* The three servers serving their schemas.
AllServing == {Net(QuietNet.probes, Schemas(Serves(DocOne), Serves(DocOne), Serves(DocTwo)))}

AllOnline == {SourceOutcome("ok", AllOnlineRegistry)}

\* The clock of SpecFederation stands just after a build or around the hour
\* after it.
FederationTimes == {0, 1} \cup (SCHEMA_CACHE_TTL - 1)..MaxFederationTime

FederationTick ==
    \E d \in {1, SCHEMA_CACHE_TTL - 2, SCHEMA_CACHE_TTL - 1} :
        /\ now + d \in FederationTimes
        /\ Advance(d, MaxFederationTime)

\* One request for the federated schema, refreshed or not.
FetchSchema ==
    /\ hist.ops < MaxFederations
    /\ \E req \in SchemaReads, e \in {WorkingStore}, src \in FederationSources,
          net \in FederationNets :
        /\ Fetched(req, e, src, Pong, "strict", net)
        /\ hist' = Counted(hist)
        /\ UNCHANGED now

\* The same while the store fails.
FetchSchemaStoreDown ==
    /\ hist.ops < MaxFederations
    /\ \E req \in SchemaReads, e \in {BrokenStore}, src \in AllOnline, net \in AllServing :
        /\ Fetched(req, e, src, Pong, "strict", net)
        /\ hist' = Counted(hist)
        /\ UNCHANGED now

\* A request for the federated schema with another method.
PostSchema ==
    /\ hist.ops < MaxFederations
    /\ \E req \in SchemaPosts, e \in {WorkingStore}, src \in AllOnline, net \in AllServing :
        /\ Fetched(req, e, src, Pong, "strict", net)
        /\ hist' = Counted(hist)
        /\ UNCHANGED now

NextFederation ==
    \/ FederationTick
    \/ FetchSchema
    \/ FetchSchemaStoreDown
    \/ PostSchema

SpecFederation == Init /\ [][NextFederation]_vars

\* The last request was a GET /api/schema answered with the schema.
SchemaFetched ==
    /\ last.op = "fetch"
    /\ last.req \in SchemaReads
    /\ last.resp.status = 200

\* What getCachedData made of a key of the store as the request found it.
Held(key) ==
    GetCachedData([kv |-> last.before, fx |-> NoEffects], key, last.at, last.env)

\* The request was answered with the federated schema the store held.
ServedFromCache ==
    /\ ~last.req.query.refresh
    /\ Held(FederatedSchemaKey).hit
    /\ IsFederatedSchemaFresh(Held(FederatedSchemaKey).data, last.at)

\* The online servers of the registry the request saw.
Online == SelectSeq(last.snapshot.servers, LAMBDA srv : srv.healthStatus = "online")

\* The fetch of a server's schema delivered a document of an allowed size.
Delivered(id) ==
    /\ last.net.schemas[id].kind = "ok"
    /\ last.net.schemas[id].doc.size <= MAX_SCHEMA_SIZE

\* The store held a schema of the server fetched less than an hour ago, so
\* that no fetch was made.
Reused(id) ==
    /\ Held(<<"schema", id>>).hit
    /\ IsSchemaFresh(Held(<<"schema", id>>).data, last.at)

\* The schema a delivered document is normalized to.
Fresh(server) == NormalizeSchema(server, last.net.schemas[server.id].doc, last.at)

\* The schemas of the servers from the i-th on whose fetchServerSchema
\* succeeded, in order.
RECURSIVE Contributions(_, _)
Contributions(servers, i) ==
    IF i > Len(servers) THEN <<>>
    ELSE (IF Reused(servers[i].id) THEN <<Held(<<"schema", servers[i].id>>).data>>
          ELSE IF Delivered(servers[i].id) THEN <<Fresh(servers[i])>>
          ELSE <<>>)
         \o Contributions(servers, i + 1)

\* The schemas of the servers from the i-th on as their servers deliver them
\* now, in order.
RECURSIVE FromScratch(_, _)
FromScratch(servers, i) ==
    IF i > Len(servers) THEN <<>>
    ELSE (IF Delivered(servers[i].id) THEN <<Fresh(servers[i])>> ELSE <<>>)
         \o FromScratch(servers, i + 1)

\* The namespaces of the entries of a federated schema.
EntryNamespaces(schema) ==
    {it.namespace : it \in Range(schema.tools) \cup Range(schema.resources)
                              \cup Range(schema.prompts)}

\* C17: createFederatedSchema is best-effort per server.  Whenever it
\* federates (the store holds no fresh federated schema, or a refresh was
\* asked for), whichever of the online servers' schema fetches fail (non-OK
\* status, timeout, transport error, oversize or unparsable document), the
\* request is answered 200 with the merge of exactly the schemas of the
\* servers whose fetchServerSchema succeeded, in registry order; a server
\* whose fetch failed is not in the result's servers list and none of the
\* result's entries carries its namespace.
C17_BestEffort ==
    /\ ( /\ last.op = "fetch"
         /\ last.req \in SchemaReads
         /\ last.rl.allowed
         /\ ~last.req.query.refresh \/ last.env.putOk ) =>
            last.resp.status = 200
    /\ (SchemaFetched /\ ~ServedFromCache) =>
        /\ last.resp.data = MergeSchemas(Contributions(Online, 1), last.at)
        /\ \A i \in 1..Len(Online) :
            (~Reused(Online[i].id) /\ ~Delivered(Online[i].id)) =>
                /\ Online[i].id \notin Range(last.resp.data.servers)
                /\ Online[i].id \notin EntryNamespaces(last.resp.data)

\* Three servers were online; the fetch of B's schema timed out, those of A
\* and C delivered, and the federated schema is that of A and C.
C17_Witness ==
    /\ SchemaFetched
    /\ ~ServedFromCache
    /\ Len(Online) = 3
    /\ last.net.schemas["B"].kind = "timeout"
    /\ ~Reused("B")
    /\ last.resp.data.servers = <<"A", "C">>
    /\ last.resp.data.tools # <<>>

\* C18: GET /api/schema without refresh returns the cached federated schema
\* for up to one hour after it was built; GET /api/schema?refresh=true
\* returns a schema recomputed from scratch (the merge of what the online
\* servers deliver now, nothing taken from previously cached data), and it
\* replaces the cached entry.
C18_CachedAnHourRefreshedFromScratch ==
    /\ ( /\ SchemaFetched
         /\ ~last.req.query.refresh
         /\ last.env.getOk
         /\ last.before[FederatedSchemaKey].present
         /\ last.at - last.before[FederatedSchemaKey].v.timestamp < SCHEMA_CACHE_TTL ) =>
            last.resp.data = last.before[FederatedSchemaKey].v.data
    /\ (SchemaFetched /\ last.req.query.refresh) =>
        /\ last.resp.data = MergeSchemas(FromScratch(Online, 1), last.at)
        /\ now = last.at =>
            /\ kv[FederatedSchemaKey].present
            /\ kv[FederatedSchemaKey].v.data = last.resp.data

----------------------------------------------------------------------------
(* SpecGateway: POST /api/proxy through the worker's fetch handler, among  *)
(* requests to the registry routes, one after another from one client      *)
(* within one rate-limit window.                                           *)

\* The requests made around the proxy requests.
AroundRequests ==
    {Request("GET", path, NoPayload) :
        path \in {<<"health">>, <<"api", "servers">>, <<"api", "servers", "A">>,
                  <<"api", "servers", "Z">>, <<"api", "servers", "Z", "schema">>,
                  <<"api", "servers", "example-mcp">>}}

\* POST /api/proxy with every payload.
ProxyPosts == {Request("POST", <<"api", "proxy">>, p) : p \in ProxyPayloads}

\* POST /api/proxy for /ping of each server id.
PingPosts ==
    {Request("POST", <<"api", "proxy">>, PingPayload(id)) :
        id \in RequestedIds \cup {"example-mcp"}}

PingA == {Request("POST", <<"api", "proxy">>, PingPayload("A"))}

\* The store or the registry source down, or both.
SomeDown == Surroundings \ {<<WorkingStore, SourceUp>>}

\* A request to the registry routes or the health route.
FetchAround ==
    \E req \in AroundRequests : Fetch(req, WorkingStore, SourceUp, Pong, "strict")

\* Every proxy payload.
FetchProxy ==
    \E req \in ProxyPosts : Fetch(req, WorkingStore, SourceUp, Pong, "strict")

\* A proxy request to each server id, with the store or the source down.
FetchProxyDown ==
    \E req \in PingPosts, e \in SomeDown : Fetch(req, e[1], e[2], Pong, "strict")

\* Every outcome of the proxied call, on each runtime, with the store up or down.
FetchProxyUpstream ==
    \E req \in PingA, up \in UpstreamOutcomes, env \in UpOrDown, rt \in Runtimes :
        Fetch(req, env, SourceUp, up, rt)

NextGateway ==
    \/ FetchAround
    \/ FetchProxy
    \/ FetchProxyDown
    \/ FetchProxyUpstream

SpecGateway == Init /\ [][NextGateway]_vars

\* The last request was POST /api/proxy.
ProxyPosted ==
    /\ last.op = "fetch"
    /\ last.req.method = "POST"
    /\ last.req.path = <<"api", "proxy">>

\* The server a proxy payload names, in the snapshot the registry served.
Named == FindServer(last.snapshot, last.req.payload.serverId)

C5_EveryRejection429 ==
    (last.op = "fetch" /\ last.resp.error = "Rate limit exceeded") =>
        /\ last.resp.status = 429
        /\ last.resp.headers["X-RateLimit-Limit"] = RATE_LIMIT_MAX_REQUESTS

\* C6: a request naming a server id that is absent from the registry snapshot
\* is answered with status 404 and a failure envelope on GET /api/servers/:id,
\* GET /api/servers/:id/schema and POST /api/proxy.
C6_UnknownId404 ==
    (/\ last.op = "fetch"
     /\ last.rl.allowed
     /\ \/ /\ last.req.method = "GET"
           /\ Len(last.req.path) >= 3
           /\ SubSeq(last.req.path, 1, 2) = <<"api", "servers">>
           /\ Len(last.req.path) = 4 => last.req.path[4] = "schema"
           /\ ~FindServer(last.snapshot, last.req.path[3]).found
        \/ /\ ProxyPosted
           /\ last.req.payload.valid
           /\ last.req.payload.serverId # ""
           /\ last.req.payload.path.kind # "missing"
           /\ ToUpperCase(last.req.payload.method) \in ALLOWED_METHODS
           /\ ~Named.found)
    => (/\ last.resp.status = 404
        /\ last.resp.kind = "envelope"
        /\ ~last.resp.success)

\* The caller received the upstream's answer with the proxy's two headers.
ForwardedVerbatim ==
    /\ last.resp.kind = "proxied"
    /\ last.resp.status = last.up.status
    /\ last.resp.body = last.up.body
    /\ last.resp.headers["X-Proxy-Response-Time"] = last.up.elapsed
    /\ last.resp.headers["X-Proxy-Server-Id"] = last.req.payload.serverId

\* The caller received the failure envelope with status 500 and this reason.
Failed500(reason) ==
    /\ last.resp.kind = "envelope"
    /\ ~last.resp.success
    /\ last.resp.status = 500
    /\ last.resp.error = reason

\* What the caller receives when the upstream answered: the answer, or, for a
\* status that allows no body, the failure of constructing the response on a
\* runtime that follows the Fetch standard.
AnswerHandedOn ==
    IF last.up.status \in {101, 204, 205, 304} /\ last.rt = "strict"
    THEN Failed500("Failed to proxy request")
    ELSE ForwardedVerbatim

\* C7 as the specification states it: whenever the proxied call ends in a
\* timeout, a transport failure or a non-2xx status, the caller of POST
\* /api/proxy receives the proxy's failure response carrying the reason.
C7_AsStated ==
    (/\ ProxyPosted
     /\ ProxyCalls # <<>>
     /\ \/ last.up.kind # "response"
        \/ last.up.status < 200
        \/ last.up.status > 299)
    => (/\ last.resp.kind = "envelope"
        /\ ~last.resp.success
        /\ last.resp.error # "")

\* C7, amended: when the proxied call times out or fails in transport, the
\* caller of POST /api/proxy receives the failure envelope with status 500 and
\* the reason ("Request timeout" for the abort, the transport error's message
\* otherwise); when the upstream answers with a non-2xx status, that status and
\* body are forwarded as the response, not a failure, except that for a status
\* that allows no body (304) a runtime following the Fetch standard gives the
\* failure envelope 500 "Failed to proxy request".
C7_UpstreamErrors ==
    (ProxyPosted /\ ProxyCalls # <<>>) =>
        /\ last.up.kind = "timeout" => Failed500("Request timeout")
        /\ last.up.kind = "network-error" => Failed500("fetch failed")
        /\ (/\ last.up.kind = "response"
            /\ (last.up.status < 200 \/ last.up.status > 299))
           => AnswerHandedOn

\* The proxied call was made and timed out, and the caller got the reason.
C7_Witness ==
    /\ ProxyPosted
    /\ ProxyCalls # <<>>
    /\ last.up.kind = "timeout"
    /\ last.resp.status = 500
    /\ last.resp.error = "Request timeout"

\* The rate-limit window of the client as the last request found it.
WindowBefore ==
    IF last.pre.present
    THEN Len(SelectSeq(last.pre.v.requests,
                       LAMBDA ts : ts > last.at - RATE_LIMIT_WINDOW))
    ELSE 0

\* The caller's path, resolved against the url of the server named.
Resolved == ResolveUrl(last.req.payload.path, Named.server.url)

C10_StoreFailure500 ==
    (/\ last.op = "fetch"
     /\ last.req.method = "GET"
     /\ last.req.path = <<"api", "servers">>
     /\ ~last.env.getOk)
    => (/\ last.resp.status = 500
        /\ ~last.resp.success
        /\ last.resp.error = "Internal server error")

----------------------------------------------------------------------------
(* The listing, the search and the submission: GET /api/servers with its   *)
(* search parameters, searchServers called by itself, POST /api/submit     *)
(* with a candidate.                                                       *)

MaxListingOps == 2
MaxListingTime == 1

ServerD == Server("D", Url("https", "d.example", 0, <<>>), "unknown", NoAuth, FALSE)

ListingRegistry ==
    [version |-> "1.0.0",
     serversKind |-> "list",
     servers |->
        <<Described(ServerA, <<"W", "e", "b">>, <<"m", "a", "p">>, << <<"a", "i">> >>),
          Described(ServerB, <<"D", "b">>, <<"a", "b">>, << <<"w", "e">>, <<"a", "i">> >>),
          Described(ServerC, <<"a", "i">>, <<"d", "b">>, << <<"x">> >>),
          Described(ServerD, <<"e">>, <<"w">>, << <<"d", "b">> >>)>>,
     stats |-> [totalServers |-> 4, onlineServers |-> 1, totalRequests |-> 0]]

ListingSource == SourceOutcome("ok", ListingRegistry)

SearchTerms == {<<>>, <<"w", "e">>, <<"W", "E">>, <<"d", "b">>}

\* Requested tags: none, one, two, one in another case.
SearchTags == {<<>>, << <<"a", "i">> >>, << <<"x">>, <<"d", "b">> >>, << <<"A", "I">> >>}

\* The tags parameter after split(','): the lists above and that of an empty
\* parameter.
TagParams == SearchTags \cup { << <<>> >> }

\* The verified parameter: absent, true, false, another word.
VerifiedParams == {"", "true", "false", "yes"}

NumberParams == {NoParam, Letters} \cup {Digits(n) : n \in {-1, 0, 1, 2}}

ListingRequest(q, tags, verified, limit, offset) ==
    [Request("GET", <<"api", "servers">>, NoPayload) EXCEPT
        !.query = [NoQuery EXCEPT !.q = q, !.tags = tags, !.verified = verified,
                                  !.limit = limit, !.offset = offset]]

\* Every combination of filters.
FilteredListings ==
    {ListingRequest(q, tags, verified, NoParam, NoParam) :
        q \in SearchTerms, tags \in TagParams, verified \in VerifiedParams}

\* Every limit and offset, over the whole list and over a filtered one.
PagedListings ==
    {ListingRequest(q, <<>>, "", limit, offset) :
        q \in {<<>>, <<"d", "b">>}, limit \in NumberParams, offset \in NumberParams}

ValidCandidate == Candidate("ok", "ok", 200, "https", "semver", "some", "named")

\* The valid candidate, those with one field at fault and one with every
\* field at fault.
Candidates ==
    {ValidCandidate,
     Candidate("missing", "number", 0, "invalid", "other", "none", "missing")}
    \cup {[ValidCandidate EXCEPT !.id = v] : v \in {"missing", "number"}}
    \cup {[ValidCandidate EXCEPT !.name = v] : v \in {"missing", "number"}}
    \cup {[ValidCandidate EXCEPT !.description = v] : v \in {0, 1, 201}}
    \cup {[ValidCandidate EXCEPT !.url = v] : v \in {"missing", "http", "invalid"}}
    \cup {[ValidCandidate EXCEPT !.version = v] : v \in {"missing", "other"}}
    \cup {[ValidCandidate EXCEPT !.tags = v] : v \in {"empty", "none"}}
    \cup {[ValidCandidate EXCEPT !.author = v] : v \in {"missing", "unnamed"}}

Submission(method, candidate) ==
    [Request(method, <<"api", "submit">>, NoPayload) EXCEPT !.candidate = candidate]

Submissions ==
    {Submission("POST", c) : c \in Candidates} \cup {Submission("GET", ValidCandidate)}

SearchCalls == SearchTerms \X SearchTags \X {"undefined", "true", "false"}

ListingTick == Advance(1, MaxListingTime)

\* GET /api/servers with filters.
ListFiltered ==
    /\ hist.ops < MaxListingOps
    /\ \E req \in FilteredListings, e \in {WorkingStore}, src \in {ListingSource} :
        /\ Fetched(req, e, src, Pong, "strict", QuietNet)
        /\ hist' = Counted(hist)
        /\ UNCHANGED now

\* GET /api/servers with a limit and an offset.
ListPaged ==
    /\ hist.ops < MaxListingOps
    /\ \E req \in PagedListings, e \in {WorkingStore}, src \in {ListingSource} :
        /\ Fetched(req, e, src, Pong, "strict", QuietNet)
        /\ hist' = Counted(hist)
        /\ UNCHANGED now

\* A request to /api/submit.
Submit ==
    /\ hist.ops < MaxListingOps
    /\ \E req \in Submissions, e \in {WorkingStore}, src \in {ListingSource} :
        /\ Fetched(req, e, src, Pong, "strict", QuietNet)
        /\ hist' = Counted(hist)
        /\ UNCHANGED now

\* searchServers called by itself.
CallSearchServers ==
    /\ hist.ops < MaxListingOps
    /\ \E call \in SearchCalls, e \in {WorkingStore}, src \in {ListingSource} :
       \E r \in {SearchServers([kv |-> kv, fx |-> NoEffects], call[1], call[2], call[3],
                               now, e, src)} :
        /\ kv' = r.s.kv
        /\ last' = [op |-> "searchServers", at |-> now, query |-> call[1],
                    tags |-> call[2], verified |-> call[3], env |-> e,
                    servers |-> r.servers,
                    snapshot |-> GetRegistry([kv |-> kv, fx |-> NoEffects],
                                             now, e, src).registry]
        /\ hist' = Counted(hist)
        /\ UNCHANGED now

NextListing ==
    \/ ListingTick
    \/ ListFiltered
    \/ ListPaged
    \/ Submit
    \/ CallSearchServers

SpecListing == Init /\ [][NextListing]_vars

\* The last request was a POST /api/submit that the limiter admitted.
Submitted ==
    /\ Admitted
    /\ last.req \in Submissions
    /\ last.req.method = "POST"

\* C21: a POST /api/submit whose candidate fails the validation is answered
\* with status 400 and the full list of the field errors; a success is
\* answered to a valid candidate only.
C21_SubmitValidated ==
    Submitted =>
        LET errors == ValidateServer(last.req.candidate)
        IN  IF errors # <<>>
            THEN /\ last.resp.status = 400
                 /\ ~last.resp.success
                 /\ last.resp.data = errors
            ELSE last.resp.success

\* The last request was a GET /api/servers answered with a listing.
Listing ==
    /\ Admitted
    /\ last.req \in FilteredListings \cup PagedListings
    /\ last.resp.status = 200

\* A server satisfies the filters supplied: the term is in its name, its
\* description or one of its tags, whatever the case; it carries one of the
\* requested tags; its verified flag is the one asked for.
Satisfies(server, query, tags, verified) ==
    /\ query # <<>> =>
        \E text \in {server.name, server.description}
                    \cup {server.tags[j] : j \in 1..Len(server.tags)} :
            \E i \in 1..Len(text) : \E k \in i..Len(text) :
                LowerText(SubSeq(text, i, k)) = LowerText(query)
    /\ tags # <<>> =>
        {tags[i] : i \in 1..Len(tags)} \cap {server.tags[j] : j \in 1..Len(server.tags)} # {}
    /\ verified \in {"true", "false"} => server.verified = (verified = "true")

\* The servers of the snapshot that satisfy the filters, in its order.
Matches(snapshot, query, tags, verified) ==
    SelectSeq(snapshot.servers, LAMBDA srv : Satisfies(srv, query, tags, verified))

\* The matches of the last listing, before the pagination.
ListingMatches ==
    Matches(last.snapshot, last.req.query.q, last.req.query.tags, last.req.query.verified)

\* C22: a search returns exactly the servers of the snapshot that satisfy
\* every filter supplied, in the order of the snapshot: searchServers in its
\* result, the listing in its total and its page.
C22_SearchExact ==
    /\ last.op = "searchServers" =>
        last.servers = Matches(last.snapshot, last.query, last.tags, last.verified)
    /\ Listing =>
        /\ last.resp.data.pagination.total = Len(ListingMatches)
        /\ \A i \in 1..Len(last.resp.data.servers) :
            \E j \in 1..Len(ListingMatches) : last.resp.data.servers[i] = ListingMatches[j]

\* The last listing was asked with a limit and an offset that are numbers
\* and not negative.
Paged ==
    /\ Listing
    /\ ~last.resp.data.pagination.limit.nan
    /\ ~last.resp.data.pagination.offset.nan
    /\ last.resp.data.pagination.limit.n >= 0
    /\ last.resp.data.pagination.offset.n >= 0

\* What the code filtered of the snapshot for the last listing.
Filtered == Listed(last.snapshot.servers, last.req)

\* C23: with an offset and a limit that are not negative, over T matches,
\* the page holds the matches at the positions offset .. offset + limit - 1
\* that exist, in their order, the total is T, and hasMore is true exactly
\* when offset + limit < T.
C23_Pagination ==
    Paged =>
        LET page == last.resp.data.servers
            offset == last.resp.data.pagination.offset.n
            limit == last.resp.data.pagination.limit.n
            T == Len(Filtered)
            positions == {p \in offset..(offset + limit - 1) : p < T}
        IN  /\ last.resp.data.pagination.total = T
            /\ Len(page) = Cardinality(positions)
            /\ \A i \in 1..Len(page) : page[i] = Filtered[offset + i]
            /\ last.resp.data.pagination.hasMore <=> (offset + limit < T)

\* A page that is neither the first nor empty and ends at the last match.
C23_Witness ==
    /\ Paged
    /\ last.resp.data.pagination.offset.n >= 1
    /\ Len(last.resp.data.servers) >= 1
    /\ last.resp.data.pagination.offset.n + last.resp.data.pagination.limit.n
       = Len(Filtered)
    /\ ~last.resp.data.pagination.hasMore

----------------------------------------------------------------------------
(* The proxy's log and statistics: calls of proxyRequest one after another *)
(* with every outcome of the proxied call, while the store's reads and     *)
(* writes succeed or fail and the stored statistics parse or not.          *)

MaxLogCalls == 2
MaxLogTime == 1

LogInputs == {ProxyInput("A", RefPing, "GET", NoHeaders, NoBody)}

LogTick == Advance(1, MaxLogTime)

ProxyLogged ==
    /\ hist.ops < MaxLogCalls
    /\ \E in \in LogInputs, up \in UpstreamOutcomes, env \in StoreEnvs :
       \E r \in {ProxyRequest([kv |-> kv, fx |-> NoEffects], "10.0.0.1", now, env,
                              SourceUp, up, in.serverId, in.path, in.method,
                              in.headers, in.body)} :
        /\ kv' = r.s.kv
        /\ last' = [op |-> "proxyRequest", at |-> now, in |-> in, env |-> env,
                    src |-> SourceUp, up |-> up, res |-> r.res, fx |-> r.s.fx,
                    before |-> kv, after |-> r.s.kv]
        /\ hist' = Counted(hist)
        /\ UNCHANGED now

\* The statistics of a server are replaced in the store by a text that is
\* not JSON.
CorruptStats ==
    /\ hist.ops < MaxLogCalls
    /\ \E id \in {"A"} :
        /\ kv[<<"proxy_stats", id>>] # Entry(UnparsableStats, now + ProxyStatsTtl)
        /\ kv' = KvPut(kv, <<"proxy_stats", id>>, UnparsableStats, ProxyStatsTtl, now)
        /\ last' = [op |-> "corruptStats", at |-> now]
        /\ UNCHANGED <<now, hist>>

NextLog ==
    \/ LogTick
    \/ ProxyLogged
    \/ CorruptStats

SpecLog == Init /\ [][NextLog]_vars

\* The last call of proxyRequest issued its outbound request.
Proxied == last.op = "proxyRequest" /\ ProxyCalls # <<>>

\* C25: whether the log entry and the statistics were stored or the store
\* failed, the result of a proxied call is made of the outcome of the
\* outbound request alone: a success with the status and body of the
\* response, or the failure with the message of the timeout or of the
\* transport error.
C25_LoggingNeverChangesResult ==
    Proxied =>
        IF last.up.kind = "response"
        THEN last.res = [success |-> TRUE, error |-> "", status |-> last.up.status,
                         statusText |-> "", body |-> last.up.body,
                         responseTime |-> last.up.elapsed]
        ELSE /\ ~last.res.success
             /\ last.res.status = 500
             /\ last.res.error = (IF last.up.kind = "timeout" THEN "Request timeout"
                                  ELSE "fetch failed")

\* The response of the upstream was returned although the log could not be
\* written.
C25_Witness ==
    /\ Proxied
    /\ ~last.env.putOk
    /\ last.up.kind = "response"
    /\ last.res.success
    /\ last.res.status = last.up.status
    /\ last.fx.writes \cap ProxyKeys = {}

\* The status the log entry of the last call carries: that of the response,
\* 0 for a timeout or a transport failure.
LoggedStatus == IF last.up.kind = "response" THEN last.up.status ELSE 0

\* The log entries of a server in a store.
LogOf(store, id) ==
    IF store[<<"proxy_log", id>>].present THEN store[<<"proxy_log", id>>].v ELSE <<>>

\* The counters of a server in a store, zero where it holds none that parse.
CountersOf(store, id) ==
    LET held == store[<<"proxy_stats", id>>]
    IN  IF held.present /\ held.v # UnparsableStats
        THEN <<held.v.totalRequests, held.v.successfulRequests, held.v.failedRequests>>
        ELSE <<0, 0, 0>>

\* The last call stored one log entry more and counted one request more, as
\* successful when its status is in 200..399 and as failed otherwise.
LoggedOnce ==
    LET id == last.in.serverId
        logged == LogOf(last.after, id)
        ok == LoggedStatus \in 200..399
    IN  /\ Len(logged) = Len(LogOf(last.before, id)) + 1
        /\ SubSeq(logged, 1, Len(logged) - 1) = LogOf(last.before, id)
        /\ logged[Len(logged)].responseStatus = LoggedStatus
        /\ last.after[<<"proxy_stats", id>>].present
        /\ CountersOf(last.after, id)[1] = CountersOf(last.before, id)[1] + 1
        /\ CountersOf(last.after, id)[2]
           = CountersOf(last.before, id)[2] + (IF ok THEN 1 ELSE 0)
        /\ CountersOf(last.after, id)[3]
           = CountersOf(last.before, id)[3] + (IF ok THEN 0 ELSE 1)

----------------------------------------------------------------------------
(* Preflights: OPTIONS requests to every kind of path, among other         *)
(* requests of the same client, until the limiter rejects.                 *)

MaxPreflights == 4

PreflightPaths ==
    {<<>>, <<"health">>, <<"nope">>, <<"api", "unknown">>, <<"api", "servers">>,
     <<"api", "servers", "Z">>, <<"api", "proxy">>, <<"api", "submit">>}

Preflights == {Request("OPTIONS", path, NoPayload) : path \in PreflightPaths}

\* The same paths asked with GET.
Gets == {Request("GET", path, NoPayload) : path \in PreflightPaths}

FetchPreflight ==
    /\ hist.ops < MaxPreflights
    /\ \E req \in Preflights, e \in UpOrDown, src \in SourceUpOrDown :
        /\ Fetched(req, e, src, Pong, "strict", QuietNet)
        /\ hist' = Counted(hist)
        /\ UNCHANGED now

FetchGet ==
    /\ hist.ops < MaxPreflights
    /\ \E req \in Gets, e \in {WorkingStore}, src \in {SourceUp} :
        /\ Fetched(req, e, src, Pong, "strict", QuietNet)
        /\ hist' = Counted(hist)
        /\ UNCHANGED now

PreflightTick == Advance(1, MaxGatewayTime)

NextPreflight ==
    \/ PreflightTick
    \/ FetchPreflight
    \/ FetchGet

SpecPreflight == Init /\ [][NextPreflight]_vars

\* The last request was an OPTIONS request.
Preflighted == last.op = "fetch" /\ last.req.method = "OPTIONS"

\* The CORS headers of a preflight: any origin, and a list of methods that
\* begins with GET.
PreflightHeaders ==
    /\ "Access-Control-Allow-Origin" \in DOMAIN last.resp.headers
    /\ last.resp.headers["Access-Control-Allow-Origin"] = "*"
    /\ "Access-Control-Allow-Methods" \in DOMAIN last.resp.headers
    /\ last.resp.headers["Access-Control-Allow-Methods"]
       = "GET, POST, PUT, DELETE, OPTIONS"

----------------------------------------------------------------------------
(* Overlapping checks: invocations of checkRateLimit for one client, each  *)
(* suspended at its await of the store's get and of the store's put, with  *)
(* the steps of the others in between.  The store works.                   *)

MaxOverlapCalls == 4
MaxOverlapTime == 1

Invocations == {1, 2}

Idle == [pc |-> "idle", at |-> 0, requests |-> <<>>]

NothingDone == [kind |-> "none"]

\* Where each invocation stands.
Flight == IF last.op = "overlap" THEN last.flight ELSE [p \in Invocations |-> Idle]

OverlapKey == <<"rate_limit", "10.0.0.1">>

\* The timestamps a store holds for the client.
HeldRequests(store) == IF store[OverlapKey].present THEN store[OverlapKey].v.requests ELSE <<>>

\* An invocation up to its put: the get, the filter and the check of the
\* window.  It returns at once when the window it read is full.
ReadWindow ==
    /\ hist.ops < MaxOverlapCalls
    /\ \E p \in Invocations :
        /\ Flight[p].pc = "idle"
        /\ LET windowStart == now - RATE_LIMIT_WINDOW
               requests == SelectSeq(HeldRequests(kv),
                                     LAMBDA ts : InWindow(ts, windowStart))
               rejected == [allowed |-> FALSE, limit |-> RATE_LIMIT_MAX_REQUESTS,
                            remaining |-> 0,
                            reset |-> requests[1] + RATE_LIMIT_WINDOW]
           IN  IF LimitExceeded(Len(requests))
               THEN /\ last' = [op |-> "overlap", flight |-> Flight,
                                done |-> [kind |-> "rejected", by |-> p, at |-> now,
                                          read |-> requests, res |-> rejected]]
                    /\ hist' = Counted(Record(hist, "10.0.0.1", now, rejected,
                                              WorkingStore))
               ELSE /\ last' = [op |-> "overlap",
                                flight |-> [Flight EXCEPT ![p] =
                                              [pc |-> "read", at |-> now,
                                               requests |-> requests]],
                                done |-> NothingDone]
                    /\ hist' = Counted(hist)
        /\ UNCHANGED <<now, kv>>

\* The rest of an invocation: the push, the put and the return.
WriteWindow ==
    \E p \in Invocations :
        /\ Flight[p].pc = "read"
        /\ LET mine == Flight[p]
               pushed == WindowWritten(mine.requests, HeldRequests(kv),
                                       mine.at - RATE_LIMIT_WINDOW, mine.at)
               res == [allowed |-> TRUE, limit |-> RATE_LIMIT_MAX_REQUESTS,
                       remaining |-> Remaining(Len(pushed)),
                       reset |-> mine.at + RATE_LIMIT_WINDOW]
           IN  /\ kv' = KvPut(kv, OverlapKey,
                              [requests |-> pushed, windowStart |-> mine.at],
                              RateLimitTtl, now)
               /\ last' = [op |-> "overlap",
                           flight |-> [Flight EXCEPT ![p] = Idle],
                           done |-> [kind |-> "admitted", by |-> p, at |-> mine.at,
                                     read |-> mine.requests, res |-> res,
                                     held |-> HeldRequests(kv)]]
               /\ hist' = Record(hist, "10.0.0.1", mine.at, res, WorkingStore)
        /\ UNCHANGED now

OverlapTick == Advance(1, MaxOverlapTime)

NextOverlap ==
    \/ OverlapTick
    \/ ReadWindow
    \/ WriteWindow

SpecOverlap == Init /\ [][NextOverlap]_vars

\* An invocation has just returned after its put.
JustAdmitted == last.op = "overlap" /\ last.done.kind = "admitted"

\* C27: the read, the check and the write of the limiter are separate steps
\* with no lock between them.  Every invocation that read fewer timestamps
\* than the cap is admitted and leaves in the store the window it read with
\* its own timestamp, whatever another invocation wrote in between, so the
\* stored window never counts more than the admissions and may count fewer.
C27_LastWriterWins ==
    /\ JustAdmitted =>
        /\ Len(last.done.read) < RATE_LIMIT_MAX_REQUESTS
        /\ HeldRequests(kv) = Append(last.done.read, last.done.at)
    /\ Len(HeldRequests(kv)) <= SumOver(hist.admits["10.0.0.1"], Time)

\* Two invocations read the same window of N timestamps and both wrote N+1:
\* the second write replaced the first, and the client has been admitted
\* more often than the cap within one window.
C27_Witness ==
    /\ JustAdmitted
    /\ Len(last.done.held) = Len(last.done.read) + 1
    /\ Len(HeldRequests(kv)) = Len(last.done.read) + 1
    /\ AdmittedInWindow(hist, "10.0.0.1", now) > RATE_LIMIT_MAX_REQUESTS

----------------------------------------------------------------------------
(* The sweep step by step: checkAllServersHealth suspended at each of its  *)
(* awaits, the probes of a batch completing one by one in any order.       *)

MaxSweeps == 1
MaxSweepTime == 1

FourRegistry ==
    [SourceRegistry EXCEPT
        !.servers = <<ServerA, ServerB, ServerC, FallbackRegistry.servers[1]>>,
        !.stats = [totalServers |-> 4, onlineServers |-> 1, totalRequests |-> 0]]

\* Registries of three, four and (the fallback) one server.
SweepSources == {SourceUp, SourceOutcome("ok", FourRegistry), SourceDown}

ProbeEndings == {Healthy, Aborted}

\* The sweep in progress, if any.
Sweeping == last.op = "sweep" /\ last.stage = "loop"

\* The batch the sweep awaits: the one before index i.
CurrentBatch ==
    IF last.i = 0 THEN <<>> ELSE Batch(last.servers, last.i - MAX_CONCURRENT_CHECKS)

\* checkAllServersHealth up to its loop: the registry is read.
BeginSweep ==
    /\ hist.ops < MaxSweeps
    /\ ~Sweeping
    /\ \E e \in {WorkingStore}, src \in SweepSources :
       \E r \in {GetRegistry([kv |-> kv, fx |-> NoEffects], now, e, src)} :
        /\ kv' = r.s.kv
        /\ last' = [op |-> "sweep", stage |-> "loop", servers |-> r.registry.servers,
                    i |-> 0, batches |-> 0, flying |-> {}, started |-> <<>>,
                    ended |-> [id \in {} |-> HealthCheckResult(id, "unknown", 0, "", 0)],
                    most |-> 0, results |-> <<>>]
        /\ hist' = Counted(hist)
        /\ UNCHANGED now

\* The results of the probes of the batch awaited that have ended, in the
\* order of the batch.
BatchResults ==
    LET ended == SelectSeq(CurrentBatch, LAMBDA srv : srv.id \in DOMAIN last.ended)
    IN  [k \in 1..Len(ended) |-> last.ended[ended[k].id]]

\* One turn of the loop: the results of the batch awaited are pushed and the
\* probes of the next batch are started.
StartBatch ==
    /\ Sweeping
    /\ AllSettled(CurrentBatch, last.flying)
    /\ last.i < Len(last.servers)
    /\ LET batch == Batch(last.servers, last.i)
           ids == {batch[k].id : k \in 1..Len(batch)}
           flying == last.flying \cup ids
       IN  last' = [last EXCEPT
                        !.i = @ + MAX_CONCURRENT_CHECKS,
                        !.batches = @ + 1,
                        !.flying = flying,
                        !.started = @ \o [k \in 1..Len(batch) |->
                                            [id |-> batch[k].id, batch |-> last.batches + 1]],
                        !.most = IF Cardinality(flying) > @ THEN Cardinality(flying) ELSE @,
                        !.results = @ \o BatchResults]
    /\ UNCHANGED <<now, kv, hist>>

\* The probe of one server in flight ends.
CompleteProbe ==
    /\ Sweeping
    /\ \E id \in last.flying, probe \in ProbeEndings :
        LET server == FindServer([servers |-> last.servers], id).server
        IN  last' = [last EXCEPT
                        !.flying = @ \ {id},
                        !.ended = (id :> ProbeOrOffline(server, probe, now)) @@ @]
    /\ UNCHANGED <<now, kv, hist>>

\* The end of the loop: the results of the last batch are pushed and all of
\* them stored.
StoreSweep ==
    /\ Sweeping
    /\ AllSettled(CurrentBatch, last.flying)
    /\ last.i >= Len(last.servers)
    /\ \E e \in {WorkingStore} :
        LET results == last.results \o BatchResults
        IN  /\ kv' = StoreHealthCheckResults([kv |-> kv, fx |-> NoEffects], results,
                                             now, e).kv
            /\ last' = [last EXCEPT !.stage = "stored", !.results = results]
    /\ UNCHANGED <<now, hist>>

SweepTick == Advance(1, MaxSweepTime)

NextSweep ==
    \/ SweepTick
    \/ BeginSweep
    \/ StartBatch
    \/ CompleteProbe
    \/ StoreSweep

SpecSweep == Init /\ [][NextSweep]_vars

\* ceil(n / MAX_CONCURRENT_CHECKS)
BatchesFor(n) == (n + MAX_CONCURRENT_CHECKS - 1) \div MAX_CONCURRENT_CHECKS

\* C28: within one sweep over N servers the probes are started in at most
\* ceil(N / cap) batches of at most cap servers, exactly that many once the
\* sweep has stored its results with one result per server; never more than
\* cap probes are in flight, and every probe started in an earlier batch has
\* ended while a later batch is in flight.
C28_SequentialBatches ==
    last.op = "sweep" =>
        /\ Cardinality(last.flying) <= MAX_CONCURRENT_CHECKS
        /\ last.most <= MAX_CONCURRENT_CHECKS
        /\ last.batches <= BatchesFor(Len(last.servers))
        /\ \A b \in 1..last.batches :
            Cardinality({k \in 1..Len(last.started) : last.started[k].batch = b})
                \in 1..MAX_CONCURRENT_CHECKS
        /\ \A k \in 1..Len(last.started) :
            last.started[k].batch < last.batches => last.started[k].id \notin last.flying
        /\ last.stage = "stored" =>
            /\ last.batches = BatchesFor(Len(last.servers))
            /\ Len(last.started) = Len(last.servers)
            /\ last.flying = {}
            /\ [k \in 1..Len(last.results) |-> last.results[k].serverId]
               = [k \in 1..Len(last.servers) |-> last.servers[k].id]

\* The second batch of a sweep over more servers than two batches hold is in
\* flight, one of its probes ended and the other not.
C28_Witness ==
    /\ Sweeping
    /\ last.batches = 2
    /\ Len(last.servers) > MAX_CONCURRENT_CHECKS
    /\ last.flying # {}
    /\ last.most = MAX_CONCURRENT_CHECKS
    /\ \E k \in 1..Len(last.started) :
        last.started[k].batch = 1 /\ last.started[k].id \in DOMAIN last.ended

----------------------------------------------------------------------------
(* Outbound calls step by step: the health probe, the schema fetch and the *)
(* proxied call between their awaits, with the cancellation timer.  What   *)
(* the handlers make of the outcome of a call is in CheckServerHealth,     *)
(* FetchServerSchema and ProxyRequest.  A timer that is armed may fire at  *)
(* any moment: the upstream answers as early or as late as it likes.       *)

MaxOutboundCalls == 3

OutboundKinds == {"checkServerHealth", "fetchServerSchema", "proxyRequest"}

\* An upstream: whether the response headers arrive, never arrive or the
\* connection fails; the status; whether the body is ever complete.
Peer(headers, status, body) == [headers |-> headers, status |-> status, body |-> body]

Peers ==
    {Peer("arrive", 200, "complete"), Peer("arrive", 503, "complete"),
     Peer("arrive", 200, "never"), Peer("arrive", 503, "never"),
     Peer("never", 0, "never"), Peer("fail", 0, "never")}

\* The call in progress, if any.
Calling == last.op = "outbound" /\ last.pc # "done"

\* await response.text(): proxyRequest reads the body of every response,
\* fetchServerSchema that of a response that is ok, checkServerHealth none.
ReadsBody(kind, status) ==
    \/ kind = "proxyRequest"
    \/ kind = "fetchServerSchema" /\ status \in 200..299

\* setTimeout(() => controller.abort(), ...); await fetch(..., {signal})
StartCall ==
    /\ hist.ops < MaxOutboundCalls
    /\ ~Calling
    /\ \E kind \in OutboundKinds, peer \in Peers :
        last' = [op |-> "outbound", kind |-> kind, peer |-> peer, pc |-> "fetching",
                 timer |-> "armed", outcome |-> "none"]
    /\ hist' = Counted(hist)
    /\ UNCHANGED <<now, kv>>

\* fetch resolves with the response headers; clearTimeout(timeoutId) follows
\* at once, before the body is read.
HeadersArrive ==
    /\ Calling
    /\ last.pc = "fetching"
    /\ last.peer.headers = "arrive"
    /\ last' = [last EXCEPT
                    !.timer = "cleared",
                    !.pc = IF ReadsBody(last.kind, last.peer.status)
                           THEN "reading" ELSE "done",
                    !.outcome = IF ReadsBody(last.kind, last.peer.status)
                                THEN "none" ELSE "response"]
    /\ UNCHANGED <<now, kv, hist>>

\* response.text() resolves.
BodyArrives ==
    /\ Calling
    /\ last.pc = "reading"
    /\ last.peer.body = "complete"
    /\ last' = [last EXCEPT !.pc = "done", !.outcome = "response"]
    /\ UNCHANGED <<now, kv, hist>>

\* fetch rejects with a transport error; the catch block clears the timer.
FetchRejects ==
    /\ Calling
    /\ last.pc = "fetching"
    /\ last.peer.headers = "fail"
    /\ last' = [last EXCEPT !.pc = "done", !.timer = "cleared", !.outcome = "error"]
    /\ UNCHANGED <<now, kv, hist>>

\* The timer fires: controller.abort() rejects the pending fetch or body
\* read with an AbortError.
TimerFires ==
    /\ Calling
    /\ last.timer = "armed"
    /\ last' = [last EXCEPT !.pc = "done", !.timer = "fired", !.outcome = "timeout"]
    /\ UNCHANGED <<now, kv, hist>>

OutboundTick == Advance(1, MaxGatewayTime)

NextOutbound ==
    \/ OutboundTick
    \/ StartCall
    \/ HeadersArrive
    \/ BodyArrives
    \/ FetchRejects
    \/ TimerFires

SpecOutbound == Init /\ [][NextOutbound]_vars

\* Every event that can happen does happen in the end: an armed timer fires
\* unless it is cleared first, and what the upstream sends arrives.
SpecOutboundLive ==
    /\ SpecOutbound
    /\ WF_vars(HeadersArrive)
    /\ WF_vars(BodyArrives)
    /\ WF_vars(FetchRejects)
    /\ WF_vars(TimerFires)

\* C29: every outbound call that was started eventually completes, as a
\* timeout when the upstream has not delivered its whole response by the
\* time the timer fires.
C29_EventuallyCompletes == Calling ~> ~Calling

----------------------------------------------------------------------------
(* The headers of the proxied request: prepareProxyHeaders applied to      *)
(* every map of caller headers over a set of names and to servers with     *)
(* every kind of authentication.                                           *)

CallerNames ==
    {"Accept", "If-None-Match", "Connection", "connection", "X-Custom",
     "authorization", "Authorization"}

HeaderValue(name) ==
    CASE name = "authorization" -> "Bearer lower-token"
      [] name = "Authorization" -> "Bearer caller-token"
      [] name = "AUTHORIZATION" -> "Bearer shouted-token"
      [] OTHER -> "x"

\* Every map of caller headers over the names.
CallerMaps == {[n \in names |-> HeaderValue(n)] : names \in SUBSET CallerNames}

\* Maps with names in other letter cases and with an empty authorization.
OddCallerMaps ==
    {[n \in names |-> IF n = "authorization" THEN "" ELSE HeaderValue(n)] :
        names \in SUBSET {"Keep-Alive", "TE", "AUTHORIZATION", "authorization",
                          "Authorization"}}

MaxHeaderCalls == 1

\* A server with authentication of every type, required, and of one type,
\* not required.
AuthServers ==
    {[ServerA EXCEPT !.authentication = [type |-> type, required |-> TRUE]] :
        type \in {"none", "api-key", "oauth", "basic"}}
    \cup {[ServerA EXCEPT !.authentication = [type |-> "api-key", required |-> FALSE]]}

PrepareHeaders ==
    /\ hist.ops < MaxHeaderCalls
    /\ \E headers \in CallerMaps, server \in AuthServers :
        /\ last' = [op |-> "prepareProxyHeaders", headers |-> headers,
                    server |-> server, sent |-> PrepareProxyHeaders(headers, server)]
        /\ hist' = Counted(hist)
        /\ UNCHANGED <<now, kv>>

PrepareOddHeaders ==
    /\ hist.ops < MaxHeaderCalls
    /\ \E headers \in OddCallerMaps, server \in AuthServers :
        /\ last' = [op |-> "prepareProxyHeaders", headers |-> headers,
                    server |-> server, sent |-> PrepareProxyHeaders(headers, server)]
        /\ hist' = Counted(hist)
        /\ UNCHANGED <<now, kv>>

NextHeaders ==
    \/ PrepareHeaders
    \/ PrepareOddHeaders

SpecHeaders == Init /\ [][NextHeaders]_vars

\* The lower-cased names of the caller headers that may be forwarded.
Forwardable ==
    {"accept", "accept-encoding", "accept-language", "cache-control", "content-type",
     "if-match", "if-modified-since", "if-none-match", "if-unmodified-since", "range"}

HopByHop ==
    {"connection", "keep-alive", "proxy-authenticate", "proxy-authorization", "te",
     "trailers", "transfer-encoding", "upgrade"}

\* The values the caller gave under authorization or Authorization.
SuppliedAuthorizations ==
    {last.headers[n] : n \in {"authorization", "Authorization"} \cap DOMAIN last.headers}
    \ {""}

\* C31: the headers sent upstream are the three fixed headers, the caller's
\* headers whose lower-cased name is in the allow-list, with the caller's
\* value, and Authorization; Authorization is sent only if the server
\* requires authentication and the caller supplied it, with the caller's
\* value; no hop-by-hop header is sent, in any letter case.
C31_HeadersSent ==
    last.op = "prepareProxyHeaders" =>
        /\ \A n \in DOMAIN last.sent :
            \/ n = "Authorization"
            \/ /\ n \in DOMAIN last.headers
               /\ ToLowerCase(n) \in Forwardable
               /\ last.sent[n] = last.headers[n]
            \/ /\ n \in {"User-Agent", "Accept", "Content-Type"}
               /\ n \notin DOMAIN last.headers
               /\ last.sent[n] = (IF n = "User-Agent" THEN "MCP-Hub-Proxy/1.0"
                                  ELSE "application/json")
        /\ {"User-Agent", "Accept", "Content-Type"} \subseteq DOMAIN last.sent
        /\ "Authorization" \in DOMAIN last.sent =>
            /\ last.server.authentication.required
            /\ last.sent["Authorization"] \in SuppliedAuthorizations
        /\ \A n \in DOMAIN last.sent : ToLowerCase(n) \notin HopByHop

\* A caller that sent Connection in two letter cases, an allowed header, a
\* header outside the allow-list and its credentials to a server that
\* requires them.
C31_Witness ==
    /\ last.op = "prepareProxyHeaders"
    /\ {"Connection", "connection", "If-None-Match", "X-Custom", "authorization"}
       \subseteq DOMAIN last.headers
    /\ last.server.authentication.required
    /\ "Authorization" \in DOMAIN last.sent
    /\ "If-None-Match" \in DOMAIN last.sent
    /\ "X-Custom" \notin DOMAIN last.sent

----------------------------------------------------------------------------
(* The body of a proxied request, in SpecProxy.                            *)

\* C32: a proxy request whose serialized body exceeds the ceiling is
\* rejected with an error and without an outbound call, whatever its
\* method; the outbound call carries a body only for POST, PUT and PATCH.
C32_OversizeRejected ==
    last.op = "proxyRequest" =>
        /\ (last.in.body.kind # "none" /\ last.in.body.len > MAX_BODY_SIZE) =>
            /\ ~last.res.success
            /\ last.res.error # ""
            /\ ProxyCalls = <<>>
        /\ \A i \in 1..Len(ProxyCalls) :
            ProxyCalls[i].body # NoBody => ProxyCalls[i].method \in {"POST", "PUT", "PATCH"}

----------------------------------------------------------------------------
(* The conflict records of a merge, in SpecMerge.                          *)

\* The namespaces a conflict record lists, as a set.
NamespacesOf(conflict) == Range(conflict.servers)

\* C33: every conflict record of a federated schema names at least two
\* distinct namespaces, so a server that lists one name twice causes no
\* conflict record and no renaming of its entries.
C33_ConflictsAcrossNamespaces ==
    last.op = "mergeSchemas" =>
        /\ \A c \in Range(last.result.conflicts) : Cardinality(NamespacesOf(c)) >= 2
        /\ \A kind \in Kinds : \A it \in Range(Pool(kind)) :
                Cardinality({e.namespace : e \in Range(Carrying(kind, it.name))}) = 1
                    => it \in Range(last.result[kind])

----------------------------------------------------------------------------
(* The namespaces of a federated schema, in SpecFederation.                *)

\* The namespaces the conflict records of a federated schema list.
ConflictNamespaces(schema) ==
    UNION {Range(schema.conflicts[i].servers) : i \in 1..Len(schema.conflicts)}

\* C34: the entries of a server's schema carry the namespace of the schema
\* (the one its document declares, else the server's id), so the namespace
\* of every entry of a federated schema, which is the prefix of the renamed
\* ones, and every namespace of its conflict records is in its namespaces.
C34_EntriesCarrySchemaNamespace ==
    (SchemaFetched /\ ~ServedFromCache) =>
        /\ \A i \in 1..Len(Contributions(Online, 1)) :
            \A kind \in Kinds : \A it \in Range(Contributions(Online, 1)[i][kind]) :
                it.namespace = Contributions(Online, 1)[i].namespace
        /\ EntryNamespaces(last.resp.data) \subseteq last.resp.data.namespaces
        /\ ConflictNamespaces(last.resp.data) \subseteq last.resp.data.namespaces

----------------------------------------------------------------------------
(* Rejections and the reset they report, in SpecRL.                        *)

\* The timestamps the store held for the client of the last check that the
\* check retained.
Retained ==
    IF last.stored.present
    THEN {last.stored.v.requests[i] : i \in {j \in 1..Len(last.stored.v.requests) :
                last.stored.v.requests[j] > last.at - RATE_LIMIT_WINDOW}}
    ELSE {}

\* The last check was rejected.
RateLimited == last.op = "checkRateLimit" /\ ~last.res.allowed

\* The check before the last one was a rejected check of the same client.
AfterRejection ==
    /\ last.op = "checkRateLimit"
    /\ last.prev.checked
    /\ last.prev.ip = last.ip
    /\ ~last.prev.res.allowed

\* C35: a rejected check writes nothing and leaves the stored window as it
\* was, and the reset it reports is the earliest retained timestamp plus the
\* window.  For a client whose requests come one after another, the request
\* that follows a rejection with reset R is admitted if it comes at R or
\* later; one that comes before R and is rejected reports the same reset R, so
\* that the first request at or after R is admitted however many were
\* rejected in between.
C35_AdmittedFromReset ==
    /\ RateLimited =>
        /\ last.fx.writes = {}
        /\ last.left = last.stored
        /\ \A ts \in Retained : last.res.reset <= ts + RATE_LIMIT_WINDOW
        /\ last.res.reset - RATE_LIMIT_WINDOW \in Retained
    /\ AfterRejection =>
        /\ last.at >= last.prev.res.reset => last.res.allowed
        /\ RateLimited => last.res.reset = last.prev.res.reset

\* A client was rejected on a full window, and its next request, made
\* later at the reset the rejection reported, found that window in the store
\* and was admitted.
C35_Witness ==
    /\ AfterRejection
    /\ last.at = last.prev.res.reset
    /\ last.prev.at < last.at
    /\ last.env.getOk /\ last.env.putOk
    /\ last.res.allowed
    /\ Cardinality(Retained) >= 1
    /\ last.stored.present /\ Len(last.stored.v.requests) = RATE_LIMIT_MAX_REQUESTS

----------------------------------------------------------------------------
(* The windows written by overlapping checks, in SpecOverlap.              *)

\* C36: however the invocations of checkRateLimit for a client interleave,
\* every window written to the store holds at least one timestamp and at
\* most the cap, a rejection writes nothing, and every admitted result
\* reports a remaining count from 0 to the cap minus one.
C36_WrittenWindowBounded ==
    /\ JustAdmitted =>
        /\ Len(HeldRequests(kv)) >= 1
        /\ Len(HeldRequests(kv)) <= RATE_LIMIT_MAX_REQUESTS
        /\ last.done.res.remaining >= 0
        /\ last.done.res.remaining <= RATE_LIMIT_MAX_REQUESTS - 1
    /\ kv[OverlapKey].present =>
        /\ Len(kv[OverlapKey].v.requests) >= 1
        /\ Len(kv[OverlapKey].v.requests) <= RATE_LIMIT_MAX_REQUESTS

\* An invocation wrote a window of as many timestamps as the cap and reported
\* that nothing remains, over a store that another invocation had written
\* since its read.
C36_Witness ==
    /\ JustAdmitted
    /\ Len(HeldRequests(kv)) = RATE_LIMIT_MAX_REQUESTS
    /\ last.done.res.remaining = 0
    /\ last.done.held # last.done.read

----------------------------------------------------------------------------
(* SpecQuota: one client that sends only POST /api/proxy, one request      *)
(* after another while the window slides; store and registry source work.  *)

MaxQuotaTime == 3

\* /ping of server A (online), of B (offline) and of Z (not registered), and
\* a method the gateway does not allow.
QuotaPosts ==
    {Request("POST", <<"api", "proxy">>, PingPayload(id)) : id \in {"A", "B", "Z"}}
    \cup {Request("POST", <<"api", "proxy">>,
                  Payload(TRUE, "A", RefPing, "TRACE", NoHeaders, NoBody))}

QuotaStores == {WorkingStore}
QuotaSources == {SourceUp}
QuotaUpstreams == {Pong}

\* The history with one more forwarded request of the client at time t.
Forwarded(h, c, t) == [h EXCEPT !.admits[c][t] = @ + 1]

\* One proxy request; the history counts it when it was forwarded.
PostProxy ==
    \E req \in QuotaPosts, env \in QuotaStores, src \in QuotaSources, up \in QuotaUpstreams :
        /\ Fetched(req, env, src, up, "strict", QuietNet)
        /\ hist' = IF ProxyCalls' # <<>> THEN Forwarded(hist, "10.0.0.1", now) ELSE hist
        /\ UNCHANGED now

QuotaTick == Advance(1, MaxQuotaTime)

NextQuota ==
    \/ QuotaTick
    \/ PostProxy

SpecQuota == Init /\ [][NextQuota]_vars

\* The last request has just been answered: no time has passed since.
JustPosted == ProxyPosted /\ last.at = now

\* The timestamps of the client's stored window that count now.
WindowNow ==
    IF kv[<<"rate_limit", "10.0.0.1">>].present
    THEN Len(SelectSeq(kv[<<"rate_limit", "10.0.0.1">>].v.requests,
                       LAMBDA ts : ts > now - RATE_LIMIT_WINDOW))
    ELSE 0

\* The timestamps the last request added to the client's window.
Recorded == WindowNow - WindowBefore

\* The last request got as far as the limiter check of proxyRequest: the
\* router admitted it, its method is allowed and its server is registered
\* and not offline.
ReachedProxyCheck ==
    /\ JustPosted
    /\ last.rl.allowed
    /\ ToUpperCase(last.req.payload.method) \in ALLOWED_METHODS
    /\ Named.found
    /\ Named.server.healthStatus # "offline"

\* The last request was admitted by the router and turned down before the
\* limiter check of proxyRequest.
TurnedDownEarly ==
    /\ JustPosted
    /\ last.rl.allowed
    /\ \/ ToUpperCase(last.req.payload.method) \notin ALLOWED_METHODS
       \/ ~Named.found
       \/ Named.server.healthStatus = "offline"

\* The requests of the client forwarded within the window that trails t.
ForwardedInWindow(t) == AdmittedInWindow(hist, "10.0.0.1", t)

----------------------------------------------------------------------------
(* SpecStats: overlapping invocations of logProxyRequest for one server,   *)
(* each suspended at its awaits of the store: the put of the log entry,    *)
(* the get of the statistics and their put.  The store works.              *)

MaxStatsCalls == 3
MaxStatsTime == 1

Loggers == {1, 2}

LoggedStatuses == {200, 404, 0}

StatsKey == <<"proxy_stats", "A">>

NotLogging == [pc |-> "idle"]

\* Where each invocation stands.
Logging == IF last.op = "logging" THEN last.flight ELSE [p \in Loggers |-> NotLogging]

\* The invocations that have returned.
Returned == IF last.op = "logging" THEN last.returned ELSE 0

\* logProxyRequest up to its get: the log entry is put under its own key.
PutLogEntry ==
    /\ hist.ops < MaxStatsCalls
    /\ \E p \in Loggers, status \in LoggedStatuses :
        /\ Logging[p].pc = "idle"
        /\ LET logEntry == LogEntry("A", Url("https", "a.example", 0, <<"ping">>),
                                    "GET", status, 8, "", now)
               logKey == <<"proxy_log", "A">>
               entries == IF kv[logKey].present THEN kv[logKey].v ELSE <<>>
           IN  /\ kv' = KvPut(kv, logKey, Append(entries, logEntry), ProxyLogTtl, now)
               /\ last' = [op |-> "logging",
                           flight |-> [Logging EXCEPT ![p] =
                                         [pc |-> "logged", logEntry |-> logEntry]],
                           returned |-> Returned]
        /\ hist' = Counted(hist)
        /\ UNCHANGED now

\* The get of the statistics and JSON.parse: the defaults when the key is
\* absent or its text does not parse.
GetStats ==
    \E p \in Loggers :
        /\ Logging[p].pc = "logged"
        /\ LET logEntry == Logging[p].logEntry
               stats == IF kv[StatsKey].present /\ kv[StatsKey].v # UnparsableStats
                        THEN kv[StatsKey].v
                        ELSE DefaultStats(logEntry.timestamp)
           IN  last' = [op |-> "logging",
                        flight |-> [Logging EXCEPT ![p] =
                                      [pc |-> "read", logEntry |-> logEntry,
                                       stats |-> stats]],
                        returned |-> Returned]
        /\ UNCHANGED <<now, kv, hist>>

\* The update of the statistics read and their put; the invocation returns.
PutStats ==
    \E p \in Loggers :
        /\ Logging[p].pc = "read"
        /\ kv' = KvPut(kv, StatsKey, UpdatedStats(Logging[p].stats, Logging[p].logEntry),
                       ProxyStatsTtl, now)
        /\ last' = [op |-> "logging",
                    flight |-> [Logging EXCEPT ![p] = NotLogging],
                    returned |-> Returned + 1]
        /\ UNCHANGED <<now, hist>>

\* The stored statistics are replaced by a text that does not parse.
StatsDamaged ==
    /\ kv[StatsKey].present
    /\ kv[StatsKey].v # UnparsableStats
    /\ kv' = KvPut(kv, StatsKey, UnparsableStats, ProxyStatsTtl, now)
    /\ UNCHANGED <<now, last, hist>>

StatsTick == Advance(1, MaxStatsTime)

NextStats ==
    \/ StatsTick
    \/ PutLogEntry
    \/ GetStats
    \/ PutStats
    \/ StatsDamaged

SpecStats == Init /\ [][NextStats]_vars

\* The store holds statistics of server A that parse.
StatsStored == kv[StatsKey].present /\ kv[StatsKey].v # UnparsableStats

\* C38: however the invocations of logProxyRequest for one server interleave,
\* every statistics record they write has totalRequests equal to the sum of
\* successfulRequests and failedRequests with none of the three negative,
\* and no counter exceeds the number of calls made; with overlapping calls
\* the counters may fall short of it.
C38_StatsConsistent ==
    StatsStored =>
        /\ kv[StatsKey].v.totalRequests
                = kv[StatsKey].v.successfulRequests + kv[StatsKey].v.failedRequests
        /\ kv[StatsKey].v.successfulRequests >= 0
        /\ kv[StatsKey].v.failedRequests >= 0
        /\ kv[StatsKey].v.totalRequests >= 1
        /\ kv[StatsKey].v.totalRequests <= hist.ops

\* Two invocations overlapped, one logging a success and one a failure: both
\* have returned and the stored statistics count one request.
C38_Witness ==
    /\ StatsStored
    /\ Returned = 2
    /\ hist.ops = 2
    /\ kv[StatsKey].v.totalRequests = 1
    /\ kv[StatsKey].v.failedRequests = 1
    /\ Len(kv[<<"proxy_log", "A">>].v) = 2
    /\ \E i \in 1..2 : kv[<<"proxy_log", "A">>].v[i].responseStatus = 200

----------------------------------------------------------------------------
(* The names of a merged schema, in SpecMerge.                             *)

\* The names of a sequence of entries are pairwise distinct.
DistinctNames(items) ==
    \A i, j \in 1..Len(items) : i # j => items[i].name # items[j].name

\* No merged schema lists a name twice within a kind.
OwnNamesDistinct ==
    \A i \in 1..Len(last.schemas) : \A kind \in Kinds :
        DistinctNames(last.schemas[i][kind])

\* C39: when no input schema lists a name twice within a kind, the names of
\* each kind of the merged schema are pairwise distinct and the merged
\* schema has as many entries of the kind as the inputs contribute.
C39_MergedNamesDistinct ==
    (last.op = "mergeSchemas" /\ OwnNamesDistinct) =>
        \A kind \in Kinds :
            /\ DistinctNames(last.result[kind])
            /\ Len(last.result[kind]) = Len(Pool(kind))

----------------------------------------------------------------------------
(* SpecStores: storeHealthCheckResults of overlapping sweeps, the one of   *)
(* the cron trigger and the one a forced GET /api/health starts.  A sweep  *)
(* issues the puts of its results and of its summary together and awaits   *)
(* them all; each put reaches the store on its own.  The store works.      *)

MaxStoreRuns == 2
MaxStoresTime == 1

SweepRuns == {"cron", "forced"}

\* The servers of the registry both sweeps run over.
StoredServers == <<ServerA, ServerB>>

\* What the probes of a sweep end in: each server answers or times out.
StoredProbes ==
    {[id \in ServerIds |-> IF id \in up THEN Healthy ELSE Aborted] : up \in SUBSET {"A", "B"}}

NotStoring == [pc |-> "idle"]

\* Where each sweep stands.
Storing == IF last.op = "stores" THEN last.runs ELSE [w \in SweepRuns |-> NotStoring]

\* A sweep is in progress.
SweepInProgress == \E w \in SweepRuns : Storing[w].pc # "idle"

\* The value a sweep puts under a key.
PutValue(results, key, t) ==
    IF key = HealthSummaryKey THEN HealthSummary(results, t)
    ELSE results[CHOOSE i \in 1..Len(results) : results[i].serverId = key[2]]

\* A sweep has probed its servers and enters storeHealthCheckResults: the
\* puts of its results and of its summary are issued.
IssuePuts ==
    /\ hist.ops < MaxStoreRuns
    /\ \E w \in SweepRuns, probes \in StoredProbes :
        /\ Storing[w].pc = "idle"
        /\ LET results == ProbeBatches(StoredServers, 0, probes, now)
           IN  last' = [op |-> "stores",
                        runs |-> [Storing EXCEPT ![w] =
                                    [pc |-> "storing", results |-> results, at |-> now,
                                     pending |-> {<<"health", results[i].serverId>> :
                                                    i \in 1..Len(results)}
                                                 \cup {HealthSummaryKey}]]]
        /\ hist' = Counted(hist)
        /\ UNCHANGED <<now, kv>>

\* One of the puts of a sweep reaches the store.
PutLands ==
    \E w \in SweepRuns :
        /\ Storing[w].pc = "storing"
        /\ \E key \in Storing[w].pending :
            /\ kv' = KvPut(kv, key, PutValue(Storing[w].results, key, Storing[w].at),
                           HealthStoreTtl, now)
            /\ last' = [op |-> "stores",
                        runs |-> [Storing EXCEPT ![w].pending = @ \ {key}]]
        /\ UNCHANGED <<now, hist>>

\* Promise.all(storePromises) resolves: the sweep returns its results.
PutsSettled ==
    \E w \in SweepRuns :
        /\ Storing[w].pc = "storing"
        /\ Storing[w].pending = {}
        /\ last' = [op |-> "stores", runs |-> [Storing EXCEPT ![w] = NotStoring]]
        /\ UNCHANGED <<now, kv, hist>>

StoresTick == Advance(1, MaxStoresTime)

NextStores ==
    \/ StoresTick
    \/ IssuePuts
    \/ PutLands
    \/ PutsSettled

SpecStores == Init /\ [][NextStores]_vars

\* The stored results of the servers that have the status.
StoredWith(status) ==
    Cardinality({i \in 1..Len(StoredServers) :
                    /\ kv[<<"health", StoredServers[i].id>>].present
                    /\ kv[<<"health", StoredServers[i].id>>].v.status = status})

\* C40: whenever no sweep is in progress, the stored summary agrees with
\* the stored results of the servers: its count of each status is the number
\* of stored results with that status, also after sweeps that overlapped.
C40_SummaryAgrees ==
    (~SweepInProgress /\ kv[HealthSummaryKey].present) =>
        /\ kv[HealthSummaryKey].v.onlineServers = StoredWith("online")
        /\ kv[HealthSummaryKey].v.degradedServers = StoredWith("degraded")
        /\ kv[HealthSummaryKey].v.offlineServers = StoredWith("offline")
        /\ kv[HealthSummaryKey].v.totalServers = Len(StoredServers)

====
